---- MODULE Spec2Model ----
(***************************************************************************)
(* Model of the NFS-e Nacional XML signer (src/signer.py, assinar_xml).    *)
(*                                                                         *)
(* An XML document is a tree of nodes as lxml keeps it (element text,     *)
(* children, tail text).  Serialised XML is a sequence of markup tokens;   *)
(* tostring, fromstring and c14n convert between the two.  The digest,     *)
(* base64 and RSA primitives are collision-free symbolic functions over    *)
(* the rendered bytes.  Each call of assinar_xml is a record of its local  *)
(* variables plus its position pc; one action per numbered section of the  *)
(* function.                                                               *)
(***************************************************************************)
EXTENDS Integers, Sequences, FiniteSets, TLC

VARIABLES call, self, h, portal

vars == <<call, self, h, portal>>

\* the NFSeThema object, its handler in progress, the requests the portal got
clientVars == <<self, h, portal>>

\* ------------------------------------------------------------------ bounds
\* largest number of children of the document root in the input documents
MaxKids == 3
\* largest number of items rps_batch and cancel_batch hold together
MaxBatch == 2
\* largest number of requests the portal receives in one run
MaxPosts == 2

\* --------------------------------------------------------------- constants
NS_NFSE == "http://www.sped.fazenda.gov.br/nfse"
NS_DS == "http://www.w3.org/2000/09/xmldsig#"
NS_OTHER == "urn:other"

ALG_C14N == "http://www.w3.org/TR/2001/REC-xml-c14n-20010315"
ALG_RSA_SHA1 == "http://www.w3.org/2000/09/xmldsig#rsa-sha1"
ALG_ENVELOPED == "http://www.w3.org/2000/09/xmldsig#enveloped-signature"
ALG_SHA1 == "http://www.w3.org/2000/09/xmldsig#sha1"

\* ---------------------------------------------------------------- XML tree
\* an lxml node: element or comment, with the text that follows it (tail)
Elem(tag, ns, attrs, text, kids, tail) ==
    [kind |-> "elem", tag |-> tag, ns |-> ns, attrs |-> attrs,
     text |-> text, kids |-> kids, tail |-> tail]

Comment(s, tail) ==
    [kind |-> "comment", tag |-> "", ns |-> "", attrs |-> <<>>,
     text |-> s, kids |-> <<>>, tail |-> tail]

\* the value of a variable that holds no node yet (Python None)
NoNode ==
    [kind |-> "none", tag |-> "", ns |-> "", attrs |-> <<>>,
     text |-> "", kids |-> <<>>, tail |-> ""]

\* ET.SubElement(parent, tag, **attrs): appended as the last child
SubElement(parent, child) == [parent EXCEPT !.kids = Append(@, child)]

\* element.get(name): <<>> for None, <<value>> otherwise
get(e, name) ==
    IF \E i \in 1..Len(e.attrs) : e.attrs[i][1] = name
    THEN <<e.attrs[CHOOSE i \in 1..Len(e.attrs) : e.attrs[i][1] = name][2]>>
    ELSE <<>>

\* --------------------------------------------------------- serialised XML
Tok(t, tag, ns, attrs, s) == [t |-> t, tag |-> tag, ns |-> ns, attrs |-> attrs, s |-> s]

DeclTok == Tok("decl", "", "", <<>>, "<?xml version='1.0' encoding='utf-8'?>")

TextTok(s) == IF s = "" THEN <<>> ELSE <<Tok("text", "", "", <<>>, s)>>

\* text that an XML parser accepts outside the root element
Whitespace == {" ", "\n"}

RECURSIVE tostringNode(_, _), tostringKids(_)
\* ET.tostring(element, with_tail): the element, its subtree and, by
\* default, the tail text that follows it
tostringNode(e, with_tail) ==
    LET body == IF e.kind = "comment"
                THEN <<Tok("comment", "", "", <<>>, e.text)>>
                ELSE <<Tok("start", e.tag, e.ns, e.attrs, "")>>
                     \o TextTok(e.text) \o tostringKids(e.kids)
                     \o <<Tok("end", e.tag, e.ns, <<>>, "")>>
    IN  body \o (IF with_tail THEN TextTok(e.tail) ELSE <<>>)

tostringKids(kids) ==
    IF kids = <<>> THEN <<>>
    ELSE tostringNode(Head(kids), TRUE) \o tostringKids(Tail(kids))

\* ET.tostring(element, encoding="utf-8")
tostring(e) == tostringNode(e, TRUE)

\* ET.tostring(root, encoding="utf-8", xml_declaration=True)
tostringDecl(e) == <<DeclTok>> \o tostringNode(e, TRUE)

ParseError == [ok |-> FALSE, root |-> NoNode]

\* character data met inside the open element e: its text before the first
\* child, the tail of its last child afterwards
AddText(e, s) ==
    IF e.kids = <<>> THEN [e EXCEPT !.text = @ \o s]
    ELSE [e EXCEPT !.kids[Len(e.kids)].tail = @ \o s]

RECURSIVE parse(_, _, _, _)
\* the XML parser: toks from position i on, stack of the open elements,
\* rt the finished root element (a sequence of 0 or 1 node)
parse(toks, i, stack, rt) ==
    IF i > Len(toks)
    THEN IF stack = <<>> /\ Len(rt) = 1
         THEN [ok |-> TRUE, root |-> rt[1]]
         ELSE ParseError
    ELSE
      LET tk == toks[i]
          n  == Len(stack)
      IN  CASE tk.t = "decl" ->
                 IF i = 1 THEN parse(toks, i + 1, stack, rt) ELSE ParseError
            [] tk.t = "start" ->
                 IF n = 0 /\ Len(rt) = 1 THEN ParseError
                 ELSE parse(toks, i + 1,
                            Append(stack, Elem(tk.tag, tk.ns, tk.attrs, "", <<>>, "")), rt)
            [] tk.t = "comment" ->
                 IF n = 0 THEN parse(toks, i + 1, stack, rt)
                 ELSE parse(toks, i + 1,
                            [stack EXCEPT ![n].kids = Append(@, Comment(tk.s, ""))], rt)
            [] tk.t = "text" ->
                 IF n = 0
                 THEN IF tk.s \in Whitespace
                      THEN parse(toks, i + 1, stack, rt)
                      ELSE ParseError
                 ELSE parse(toks, i + 1, [stack EXCEPT ![n] = AddText(@, tk.s)], rt)
            [] tk.t = "end" ->
                 IF n = 0 \/ stack[n].tag # tk.tag \/ stack[n].ns # tk.ns
                 THEN ParseError
                 ELSE IF n = 1
                      THEN parse(toks, i + 1, <<>>, <<stack[1]>>)
                      ELSE parse(toks, i + 1,
                                 [SubSeq(stack, 1, n - 1) EXCEPT
                                    ![n - 1].kids = Append(@, stack[n])], rt)
            [] OTHER -> ParseError

\* ET.fromstring(bytes)
fromstring(toks) == parse(toks, 1, <<>>, <<>>)

\* ------------------------------------------------------- canonicalisation
\* attribute names in the order C14N writes them (code point order)
AttrOrder == <<"Algorithm", "Id", "URI", "versao">>

RECURSIVE sortAttrs(_, _)
sortAttrs(attrs, k) ==
    IF k > Len(AttrOrder) THEN <<>>
    ELSE SelectSeq(attrs, LAMBDA a : a[1] = AttrOrder[k]) \o sortAttrs(attrs, k + 1)

RECURSIVE c14nNode(_, _, _), c14nKids(_, _)
c14nNode(e, with_tail, with_comments) ==
    LET body == IF e.kind = "comment"
                THEN IF with_comments
                     THEN <<Tok("comment", "", "", <<>>, e.text)>>
                     ELSE <<>>
                ELSE <<Tok("start", e.tag, e.ns, sortAttrs(e.attrs, 1), "")>>
                     \o TextTok(e.text) \o c14nKids(e.kids, with_comments)
                     \o <<Tok("end", e.tag, e.ns, <<>>, "")>>
    IN  body \o (IF with_tail THEN TextTok(e.tail) ELSE <<>>)

c14nKids(kids, with_comments) ==
    IF kids = <<>> THEN <<>>
    ELSE c14nNode(Head(kids), TRUE, with_comments) \o c14nKids(Tail(kids), with_comments)

\* ------------------------------------------------------------ rendering
RECURSIVE renderAttrs(_)
renderAttrs(attrs) ==
    IF attrs = <<>> THEN ""
    ELSE " " \o Head(attrs)[1] \o "='" \o Head(attrs)[2] \o "'" \o renderAttrs(Tail(attrs))

renderTok(tk) ==
    CASE tk.t = "start"   -> "<{" \o tk.ns \o "}" \o tk.tag \o renderAttrs(tk.attrs) \o ">"
      [] tk.t = "end"     -> "</{" \o tk.ns \o "}" \o tk.tag \o ">"
      [] tk.t = "comment" -> "<!--" \o tk.s \o "-->"
      [] OTHER            -> tk.s

RECURSIVE render(_)
\* the bytes of a serialisation, as handed to the hash and the signer
render(toks) == IF toks = <<>> THEN "" ELSE renderTok(Head(toks)) \o render(Tail(toks))

\* canonical bytes that keep the comments
c14n_with_comments(e) == render(c14nNode(e, FALSE, TRUE))

\* ET.tostring(element, method="c14n", exclusive=False, with_comments=False)
\* of a document element (which has no tail): the canonical bytes
c14n(e) == render(c14nNode(e, FALSE, FALSE))

\* ---------------------------------------------------------- cryptography
\* hashlib.sha1(bytes).digest()
sha1(bytes) == "sha1(" \o bytes \o ")"

\* base64.b64encode(bytes).decode()
b64encode(bytes) == "b64(" \o bytes \o ")"

Key(type, id) == [type |-> type, id |-> id]
NoKey == Key("none", "")
NoCert == ""

\* a signature salted from state shared by the calls
rsa_sign_salted(key, bytes) ==
    "rsa-pss-sha1[" \o key.id \o "]("
       \o ToString(Cardinality({c \in DOMAIN call : call[c].signature_b64 # ""}))
       \o "," \o bytes \o ")"

\* private_key.sign(data, padding.PKCS1v15(), hashes.SHA1()) of an RSA key:
\* a function of the key and the bytes only
rsa_sign(key, bytes) == "rsa-pkcs1v15-sha1[" \o key.id \o "](" \o bytes \o ")"

\* the contents of a PKCS#12 file
Pfx(parsable, pass, key, cert, chain) ==
    [parsable |-> parsable, pass |-> pass, key |-> key, cert |-> cert, chain |-> chain]

File(exists, data) == [exists |-> exists, data |-> data]

\* the files the caller may name in pfx_path
Paths == {"rsa.pfx", "chain.pfx", "nopass.pfx", "ec.pfx", "nokey.pfx",
          "nocert.pfx", "junk.pfx", "missing.pfx"}

Files ==
    [p \in Paths |->
       CASE p = "rsa.pfx"    -> File(TRUE, Pfx(TRUE, "s3", Key("RSA", "kA"), "DER-A", <<>>))
         [] p = "chain.pfx"  -> File(TRUE, Pfx(TRUE, "s3", Key("RSA", "kB"), "DER-B", <<"DER-CA">>))
         [] p = "nopass.pfx" -> File(TRUE, Pfx(TRUE, "", Key("RSA", "kA"), "DER-A", <<>>))
         [] p = "ec.pfx"     -> File(TRUE, Pfx(TRUE, "s3", Key("EC", "kE"), "DER-E", <<>>))
         [] p = "nokey.pfx"  -> File(TRUE, Pfx(TRUE, "s3", NoKey, "DER-A", <<>>))
         [] p = "nocert.pfx" -> File(TRUE, Pfx(TRUE, "s3", Key("RSA", "kA"), NoCert, <<>>))
         [] p = "junk.pfx"   -> File(TRUE, Pfx(FALSE, "", NoKey, NoCert, <<>>))
         [] OTHER            -> File(FALSE, Pfx(FALSE, "", NoKey, NoCert, <<>>))]

\* pkcs12.load_key_and_certificates(data, password): password is <<>> for
\* None and <<bytes>> otherwise
load_key_and_certificates(data, password) ==
    IF data.parsable /\ (IF password = <<>> THEN data.pass = "" ELSE data.pass = password[1])
    THEN [ok |-> TRUE, private_key |-> data.key, certificate |-> data.cert,
          additional_certs |-> data.chain]
    ELSE [ok |-> FALSE, private_key |-> NoKey, certificate |-> NoCert,
          additional_certs |-> <<>>]

\* ------------------------------------------------------------- exceptions
Exc(type, msg) == [exc |-> type, msg |-> msg]
NoExc == Exc("", <<>>)

FileNotFoundError == Exc("FileNotFoundError", <<"No such file or directory">>)
Pkcs12Error == Exc("ValueError", <<"Invalid password or PKCS12 data">>)
PfxInvalidoError == Exc("ValueError", <<"PFX invalido: sem chave privada ou certificado.">>)
XMLSyntaxError == Exc("XMLSyntaxError", <<"not well-formed">>)
ElementoNaoEncontrado(tag) == Exc("ValueError", <<"Elemento <", tag, "> nao encontrado.">>)
AtributoIdAusente(tag) == Exc("ValueError", <<"Atributo Id ausente em <", tag, ">.">>)
SignTypeError == Exc("TypeError", <<"sign() takes 3 positional arguments but 4 were given">>)

\* ------------------------------------------------------------------ inputs
IdAttr(v) == <<"Id", v>>

serie == Elem("serie", NS_NFSE, <<>>, "1", <<>>, "")

\* children the document root may have
infDPS_a   == Elem("infDPS", NS_NFSE, <<IdAttr("DPS1a")>>, "", <<serie>>, "")
infDPS_b   == Elem("infDPS", NS_NFSE, <<<<"versao", "1.00">>, IdAttr("x9Z")>>,
                   "a", <<Comment("c", "b")>>, "\n")
infDPS_noId    == Elem("infDPS", NS_NFSE, <<>>, "", <<serie>>, "")
infDPS_emptyId == Elem("infDPS", NS_NFSE, <<IdAttr("")>>, "", <<>>, "")
infDPS_tail    == Elem("infDPS", NS_NFSE, <<IdAttr("T5")>>, "", <<>>, "x")
infDPS_foreign == Elem("infDPS", NS_OTHER, <<IdAttr("F1")>>, "", <<>>, "")
infPedReg  == Elem("infPedReg", NS_NFSE, <<IdAttr("PRE1")>>, "", <<>>, "")
prest      == Elem("prest", NS_NFSE, <<>>, "p", <<>>, "")
lote       == Elem("lote", NS_NFSE, <<>>, "", <<infDPS_a>>, "")
topComment == Comment("top", "")

Kids == {infDPS_a, infDPS_b, infDPS_noId, infDPS_emptyId, infDPS_tail,
         infDPS_foreign, infPedReg, prest, lote, topComment}

SeqsUpTo(S, n) == UNION {[1..k -> S] : k \in 0..n}

DPS(kids) == Elem("DPS", NS_NFSE, <<<<"versao", "1.00">>>>, "", kids, "")

\* well-formed documents with at most n children under the root
Docs(n) == {DPS(kids) : kids \in SeqsUpTo(Kids, n)}

\* inputs no XML parser accepts: no bytes, a document cut before its last
\* tag, character data only
Malformed ==
    LET whole == tostringDecl(DPS(<<infDPS_a>>))
    IN  {<<>>, SubSeq(whole, 1, Len(whole) - 1), TextTok("x")}

XmlInputs(n) == {tostringDecl(d) : d \in Docs(n)} \cup Malformed

Tags == {"infDPS", "infPedReg"}

\* <<pfx_path, pfx_password>>
Credentials ==
    {<<"rsa.pfx", "s3">>, <<"rsa.pfx", "bad">>, <<"rsa.pfx", "">>,
     <<"chain.pfx", "s3">>, <<"nopass.pfx", "">>,
     <<"ec.pfx", "s3">>, <<"nokey.pfx", "s3">>, <<"nocert.pfx", "s3">>,
     <<"junk.pfx", "s3">>, <<"missing.pfx", "s3">>}

\* ------------------------------------------------------- one call's state
\* the arguments and local variables of one activation of assinar_xml and
\* its position: pc names the section that runs next
NewCall(xml_input, cred, tag_to_sign) ==
    [pc |-> "load_pfx",
     xml_input |-> xml_input, pfx_path |-> cred[1], pfx_password |-> cred[2],
     tag_to_sign |-> tag_to_sign,
     private_key |-> NoKey, certificate |-> NoCert, additional_certs |-> <<>>,
     cert_b64 |-> "",
     root |-> NoNode, target_element |-> 0, inf_id |-> <<>>,
     digest_b64 |-> "", Signature |-> NoNode, signature_b64 |-> "",
     xml_final |-> <<>>, exc |-> NoExc]

\* a failure that hands back what was built so far
Raise_partial(c, e) ==
    call' = [call EXCEPT ![c].pc = "raised", ![c].exc = e,
                         ![c].xml_final = tostringDecl(call[c].root)]

Raise(c, e) == call' = [call EXCEPT ![c].pc = "raised", ![c].exc = e]

\* ------------------------------------------------- assinar_xml, by section
\* the check written with "and"
pfxInvalido_and(private_key, certificate) == private_key = NoKey /\ certificate = NoCert

\* private_key is None or certificate is None
pfxInvalido(private_key, certificate) == private_key = NoKey \/ certificate = NoCert

\* 1) Carrega chave privada e certificado do PFX
LoadPfx(c) ==
    /\ call[c].pc = "load_pfx"
    /\ LET f == Files[call[c].pfx_path]
           password == IF call[c].pfx_password # ""
                       THEN <<call[c].pfx_password>> ELSE <<>>
           r == load_key_and_certificates(f.data, password)
       IN  IF ~f.exists THEN Raise(c, FileNotFoundError)
           ELSE IF ~r.ok THEN Raise(c, Pkcs12Error)
           ELSE IF pfxInvalido(r.private_key, r.certificate)
                THEN Raise(c, PfxInvalidoError)
           ELSE call' = [call EXCEPT ![c].pc = "parse_xml",
                                     ![c].private_key = r.private_key,
                                     ![c].certificate = r.certificate,
                                     ![c].additional_certs = r.additional_certs,
                                     ![c].cert_b64 = b64encode(r.certificate)]

\* a parser that recovers from errors with an empty document
ParseXml_recover(c) ==
    /\ call[c].pc = "parse_xml"
    /\ LET r == fromstring(call[c].xml_input)
       IN  call' = [call EXCEPT
                      ![c].pc = "locate",
                      ![c].root = IF r.ok THEN r.root
                                  ELSE Elem("DPS", NS_NFSE, <<>>, "", <<>>, "")]

\* 2) Carrega o XML
ParseXml(c) ==
    /\ call[c].pc = "parse_xml"
    /\ LET r == fromstring(call[c].xml_input)
       IN  IF ~r.ok THEN Raise(c, XMLSyntaxError)
           ELSE call' = [call EXCEPT ![c].pc = "locate", ![c].root = r.root]

\* a search that takes the last match
find_last(root, tag) ==
    LET m == {i \in 1..Len(root.kids) :
                 /\ root.kids[i].kind = "elem"
                 /\ root.kids[i].ns = NS_NFSE
                 /\ root.kids[i].tag = tag}
    IN  IF m = {} THEN 0 ELSE CHOOSE i \in m : \A j \in m : i >= j

\* a search by local name, in any namespace
find_anyns(root, tag) ==
    LET m == {i \in 1..Len(root.kids) :
                 /\ root.kids[i].kind = "elem"
                 /\ root.kids[i].tag = tag}
    IN  IF m = {} THEN 0 ELSE CHOOSE i \in m : \A j \in m : i <= j

\* root.find("ns:" + tag, {"ns": NS_NFSE}): the position among the children
\* of root of the first child element with that qualified name, 0 for None
find(root, tag) ==
    LET m == {i \in 1..Len(root.kids) :
                 /\ root.kids[i].kind = "elem"
                 /\ root.kids[i].ns = NS_NFSE
                 /\ root.kids[i].tag = tag}
    IN  IF m = {} THEN 0 ELSE CHOOSE i \in m : \A j \in m : i <= j

\* 3) Localiza o elemento a ser assinado
Locate(c) ==
    /\ call[c].pc = "locate"
    /\ LET t == find(call[c].root, call[c].tag_to_sign)
       IN  IF t = 0 THEN Raise(c, ElementoNaoEncontrado(call[c].tag_to_sign))
           ELSE call' = [call EXCEPT ![c].pc = "check_id", ![c].target_element = t]

\* a test for None only
missingId_none(inf_id) == inf_id = <<>>

\* not inf_id
missingId(inf_id) == inf_id = <<>> \/ inf_id[1] = ""

\* 3) inf_id = target_element.get("Id")
CheckId(c) ==
    /\ call[c].pc = "check_id"
    /\ LET inf_id == get(call[c].root.kids[call[c].target_element], "Id")
       IN  IF missingId(inf_id)
           THEN Raise(c, AtributoIdAusente(call[c].tag_to_sign))
           ELSE call' = [call EXCEPT ![c].pc = "digest", ![c].inf_id = inf_id]

\* the digest taken over the whole document
digestInput_root(root, target_element) == fromstring(tostring(root))

\* the bytes the digest is taken over
digestInput(root, target_element) ==
    LET target_bytes == tostring(root.kids[target_element])
    IN  fromstring(target_bytes)

\* 4) Canonicaliza e calcula o DigestValue
Digest(c) ==
    /\ call[c].pc = "digest"
    /\ LET reparsed == digestInput(call[c].root, call[c].target_element)
       IN  IF ~reparsed.ok THEN Raise(c, XMLSyntaxError)
           ELSE call' = [call EXCEPT
                           ![c].pc = "build",
                           ![c].digest_b64 = b64encode(sha1(c14n(reparsed.root)))]

Ds(tag, attrs, text) == Elem(tag, NS_DS, attrs, text, <<>>, "")
Algorithm(uri) == <<<<"Algorithm", uri>>>>

\* a Reference whose URI is the bare Id
buildReference_bareId(inf_id, digest_b64) ==
    LET Reference  == Ds("Reference", <<<<"URI", inf_id>>>>, "")
        Transforms == SubElement(SubElement(Ds("Transforms", <<>>, ""),
                                            Ds("Transform", Algorithm(ALG_ENVELOPED), "")),
                                 Ds("Transform", Algorithm(ALG_C14N), ""))
    IN  SubElement(SubElement(SubElement(Reference, Transforms),
                              Ds("DigestMethod", Algorithm(ALG_SHA1), "")),
                   Ds("DigestValue", <<>>, digest_b64))

\* Reference with its Transforms, DigestMethod and DigestValue
buildReference(inf_id, digest_b64) ==
    LET Reference  == Ds("Reference", <<<<"URI", "#" \o inf_id>>>>, "")
        Transforms == SubElement(SubElement(Ds("Transforms", <<>>, ""),
                                            Ds("Transform", Algorithm(ALG_ENVELOPED), "")),
                                 Ds("Transform", Algorithm(ALG_C14N), ""))
    IN  SubElement(SubElement(SubElement(Reference, Transforms),
                              Ds("DigestMethod", Algorithm(ALG_SHA1), "")),
                   Ds("DigestValue", <<>>, digest_b64))

\* SignedInfo with its two method elements exchanged
buildSignedInfo_swapped(inf_id, digest_b64) ==
    SubElement(SubElement(SubElement(Ds("SignedInfo", <<>>, ""),
                                     Ds("SignatureMethod", Algorithm(ALG_RSA_SHA1), "")),
                          Ds("CanonicalizationMethod", Algorithm(ALG_C14N), "")),
               buildReference(inf_id, digest_b64))

buildSignedInfo(inf_id, digest_b64) ==
    SubElement(SubElement(SubElement(Ds("SignedInfo", <<>>, ""),
                                     Ds("CanonicalizationMethod", Algorithm(ALG_C14N), "")),
                          Ds("SignatureMethod", Algorithm(ALG_RSA_SHA1), "")),
               buildReference(inf_id, digest_b64))

\* SignedInfo built and handed on without being signed
BuildSignedInfo_unsigned(c) ==
    /\ call[c].pc = "build"
    /\ call' = [call EXCEPT
                  ![c].pc = "keyinfo",
                  ![c].Signature =
                      SubElement(Ds("Signature", <<>>, ""),
                                 buildSignedInfo(call[c].inf_id[1], call[c].digest_b64))]

\* 5) Monta a estrutura de assinatura
BuildSignedInfo(c) ==
    /\ call[c].pc = "build"
    /\ call' = [call EXCEPT
                  ![c].pc = "sign",
                  ![c].Signature =
                      SubElement(Ds("Signature", <<>>, ""),
                                 buildSignedInfo(call[c].inf_id[1], call[c].digest_b64))]

\* the canonical bytes of SignedInfo
c14n_signed(SignedInfo) ==
    LET signedinfo_bytes == tostring(SignedInfo)
        signedinfo_c14n_element == fromstring(signedinfo_bytes).root
    IN  c14n(signedinfo_c14n_element)

\* a signer that takes any key
Sign_anykey(c) ==
    /\ call[c].pc = "sign"
    /\ call' = [call EXCEPT
                  ![c].pc = "keyinfo",
                  ![c].signature_b64 =
                      b64encode(rsa_sign(call[c].private_key,
                                         c14n_signed(call[c].Signature.kids[1])))]

\* 6) Canonicaliza SignedInfo e assina
Sign(c) ==
    /\ call[c].pc = "sign"
    /\ IF call[c].private_key.type # "RSA" THEN Raise(c, SignTypeError)
       ELSE call' = [call EXCEPT
                       ![c].pc = "keyinfo",
                       ![c].signature_b64 =
                           b64encode(rsa_sign(call[c].private_key,
                                              c14n_signed(call[c].Signature.kids[1])))]

buildKeyInfo(cert_b64) ==
    SubElement(Ds("KeyInfo", <<>>, ""),
               SubElement(Ds("X509Data", <<>>, ""),
                          Ds("X509Certificate", <<>>, cert_b64)))

\* KeyInfo that also lists the first certificate of the chain
KeyInfo_chain(c) ==
    /\ call[c].pc = "keyinfo"
    /\ LET leaf == SubElement(SubElement(call[c].Signature,
                                         Ds("SignatureValue", <<>>, call[c].signature_b64)),
                              buildKeyInfo(call[c].cert_b64))
       IN  call' = [call EXCEPT
                      ![c].pc = "addnext",
                      ![c].Signature =
                          IF call[c].additional_certs = <<>> THEN leaf
                          ELSE [leaf EXCEPT !.kids[3].kids[1] =
                                  SubElement(@, Ds("X509Certificate", <<>>,
                                                   b64encode(call[c].additional_certs[1])))]]

\* 7) Insere SignatureValue e KeyInfo
KeyInfo(c) ==
    /\ call[c].pc = "keyinfo"
    /\ call' = [call EXCEPT
                  ![c].pc = "addnext",
                  ![c].Signature =
                      SubElement(SubElement(@, Ds("SignatureValue", <<>>,
                                                  call[c].signature_b64)),
                                 buildKeyInfo(call[c].cert_b64))]

\* the node appended as the last child of parent
addnext_append(parent, t, node) == SubElement(parent, node)

\* the node appended inside child number t
addnext_child(parent, t, node) == [parent EXCEPT !.kids[t] = SubElement(@, node)]

\* the node put in the place of a Signature that already follows child t
addnext_replace(parent, t, node) ==
    IF t < Len(parent.kids) /\ parent.kids[t + 1].tag = "Signature"
    THEN [parent EXCEPT !.kids[t + 1] = node]
    ELSE [parent EXCEPT !.kids = SubSeq(@, 1, t) \o <<node>> \o SubSeq(@, t + 1, Len(@))]

\* parent with `node` inserted right after its child number t (and after the
\* tail text of that child)
addnext(parent, t, node) ==
    [parent EXCEPT !.kids = SubSeq(@, 1, t) \o <<node>> \o SubSeq(@, t + 1, Len(@))]

\* 8) Adiciona <ds:Signature> apos a tag assinada
Addnext(c) ==
    /\ call[c].pc = "addnext"
    /\ call' = [call EXCEPT
                  ![c].pc = "serialize",
                  ![c].root = addnext(@, call[c].target_element, call[c].Signature)]

\* 9) Retorna XML final
Serialize(c) ==
    /\ call[c].pc = "serialize"
    /\ call' = [call EXCEPT ![c].pc = "returned",
                            ![c].xml_final = tostringDecl(call[c].root)]

Step(c) ==
    \/ LoadPfx(c)
    \/ ParseXml(c)
    \/ Locate(c)
    \/ CheckId(c)
    \/ Digest(c)
    \/ BuildSignedInfo(c)
    \/ Sign(c)
    \/ KeyInfo(c)
    \/ Addnext(c)
    \/ Serialize(c)

Next == (\E c \in DOMAIN call : Step(c)) /\ UNCHANGED clientVars

\* ============================================================ NFSeThema
URL_PRODUCAO == "https://sefin.nfse.gov.br/SefinNacional/nfse"

\* ---- the portal's replies
\* one entry of the 'erros' list: a dict (with optional keys in two
\* spellings), a string, or any other JSON value
Erro(type, Codigo, codigo, Descricao, descricao, Complemento, str) ==
    [type |-> type, Codigo |-> Codigo, codigo |-> codigo, Descricao |-> Descricao,
     descricao |-> descricao, Complemento |-> Complemento, str |-> str]

erroCompleto == Erro("dict", <<"E401">>, <<>>, <<"DPS invalida">>, <<>>, <<>>, "")
erroMinusculo == Erro("dict", <<>>, <<"E402">>, <<>>, <<"rejeitada">>, <<"campo x">>, "")
erroSemCodigo == Erro("dict", <<>>, <<>>, <<"sem codigo">>, <<>>, <<>>, "")
erroTexto == Erro("str", <<>>, <<>>, <<>>, <<>>, <<>>, "falha")
erroOutro == Erro("other", <<>>, <<>>, <<>>, <<>>, <<>>, "")

\* the 'erros' lists of the replies
ErrosInputs ==
    {<<>>, <<erroCompleto>>, <<erroMinusculo>>, <<erroSemCodigo>>, <<erroTexto>>,
     <<erroOutro>>, <<erroCompleto, erroTexto>>, <<erroSemCodigo, erroOutro>>}

\* an HTTP reply: kind "json" when the body is a JSON object, "xml" and
\* "text" otherwise; nfse tells whether it carries the note (for "xml", the
\* NFSe and pdfBase64 elements)
Reply(status, kind, chaveAcesso, idDps, erros, nfse) ==
    [status |-> status, kind |-> kind, chaveAcesso |-> chaveAcesso, idDps |-> idDps,
     erros |-> erros, nfse |-> nfse]

\* a chaveAcesso that holds a control character (U+0001)
CHAVE_CONTROL == "CH<U+0001>"

Replies ==
    {Reply(st, "json", ch, "ID1", er, ch # "") :
        st \in {201, 400}, ch \in {"", "CH1"}, er \in ErrosInputs}
    \cup {Reply(201, "json", CHAVE_CONTROL, "ID1", <<>>, TRUE)}
    \cup {Reply(st, k, "", "", <<>>, n) :
        st \in {200, 500}, k \in {"xml", "text"}, n \in BOOLEAN}

\* no reply
NoReply == Reply(0, "", "", "", <<>>, FALSE)

bodyOf(reply) ==
    "body(" \o reply.kind \o "," \o ToString(reply.status)
        \o "," \o ToString(Len(reply.erros)) \o ")"

\* ---- enviar_nfse_pkcs12
\* erro.get(K, erro.get(k, ""))
getEither(upper, lower) ==
    IF upper # <<>> THEN upper[1] ELSE IF lower # <<>> THEN lower[1] ELSE ""

\* the message one entry contributes: <<>> when it contributes none
mensagemDe(erro) ==
    IF erro.type = "dict"
    THEN LET cod  == getEither(erro.Codigo, erro.codigo)
             desc == getEither(erro.Descricao, erro.descricao)
             comp == getEither(erro.Complemento, <<>>)
         IN  IF cod # "" /\ desc # ""
             THEN <<cod \o ": " \o desc \o (IF comp # "" THEN " - " \o comp ELSE "")>>
             ELSE <<>>
    ELSE IF erro.type = "str" THEN <<erro.str>>
    ELSE <<>>

RECURSIVE mensagens(_)
mensagens(erros) ==
    IF erros = <<>> THEN <<>> ELSE mensagemDe(Head(erros)) \o mensagens(Tail(erros))

RECURSIVE join(_)
\* " | ".join(msgs)
join(msgs) ==
    IF msgs = <<>> THEN ""
    ELSE IF Len(msgs) = 1 THEN msgs[1]
    ELSE msgs[1] \o " | " \o join(Tail(msgs))

\* mensagem_erro: <<>> for None
mensagemErro(erros) ==
    IF mensagens(erros) # <<>> THEN <<join(mensagens(erros))>> ELSE <<>>

Response(status, body, xml_nfse, pdf_base64, id_dps, chave_acesso, erros, mensagem_erro) ==
    [status |-> status, body |-> body, xml_nfse |-> xml_nfse, pdf_base64 |-> pdf_base64,
     id_dps |-> id_dps, chave_acesso |-> chave_acesso, erros |-> erros,
     mensagem_erro |-> mensagem_erro]

NoResponse == Response(0, "", "", "", "", "", <<>>, <<>>)

\* enviar_nfse_pkcs12 goes on to download the DANFSe
baixaDanfse(reply) ==
    /\ reply.kind = "json"
    /\ ~(mensagemErro(reply.erros) # <<>> /\ mensagemErro(reply.erros)[1] # "")
    /\ reply.status \in {200, 201}
    /\ reply.chaveAcesso # ""

\* the number of download attempts
max_retries == 3

\* the dict enviar_nfse_pkcs12 returns for a reply; pdf is the position of
\* the first DANFSe download that yields a PDF, 0 when none does
enviar_nfse_pkcs12(reply, pdf) ==
    IF reply.kind = "json"
    THEN LET mensagem_erro == mensagemErro(reply.erros)
             xml_nfse == IF reply.nfse THEN "<NFSe/>" ELSE ""
         IN  IF mensagem_erro # <<>> /\ mensagem_erro[1] # ""
             THEN Response(reply.status, bodyOf(reply), xml_nfse, "", reply.idDps,
                           reply.chaveAcesso, reply.erros, mensagem_erro)
             ELSE Response(reply.status, bodyOf(reply), xml_nfse,
                           IF reply.status \in {200, 201} /\ reply.chaveAcesso # "" /\ pdf > 0
                           THEN "PDF" ELSE "",
                           reply.idDps, reply.chaveAcesso, <<>>, <<>>)
    ELSE Response(reply.status, bodyOf(reply),
                  IF reply.kind = "xml" /\ reply.nfse THEN "<NFSe/>" ELSE "",
                  IF reply.kind = "xml" /\ reply.nfse THEN "PDF" ELSE "",
                  "", "", <<>>, <<>>)

\* ---- the object and its handlers
\* build_nfse_xml: the DPS of RPS number n
build_nfse_xml(n) ==
    tostringDecl(DPS(<<Elem("infDPS", NS_NFSE, <<IdAttr("DPS" \o ToString(n))>>,
                           "", <<serie>>, "")>>))

\* build_cancelamento_xml: the cancellation event of the note with that key
build_cancelamento_xml(chave_acesso) ==
    tostringDecl(Elem("pedRegEvento", NS_NFSE, <<<<"versao", "1.00">>>>, "",
                      <<Elem("infPedReg", NS_NFSE, <<IdAttr("PRE" \o chave_acesso)>>,
                             "", <<>>, "")>>, ""))

\* gerar_dpsXmlGZipB64(xml_string)
gerar_dpsXmlGZipB64(xml_string) == [b64 |-> [gzip |-> xml_string]]

Result(keys, protocolo, chave_acesso, id_dps, xml_nfse, xml_enviado, erros, mensagem_erro) ==
    [keys |-> keys, protocolo |-> protocolo, chave_acesso |-> chave_acesso,
     id_dps |-> id_dps, xml_nfse |-> xml_nfse, xml_enviado |-> xml_enviado,
     erros |-> erros, mensagem_erro |-> mensagem_erro]

\* result = {}
EmptyResult == Result({}, "", "", "", "", <<>>, <<>>, <<>>)

\* nf_fields of add_to_cancel: the four keys a key of the note is read from
\* ("" for a key that is absent or empty)
NfFields(nf_chave_acesso, chave_acesso, nf_cancela_id, protocolo) ==
    [nf_chave_acesso |-> nf_chave_acesso, chave_acesso |-> chave_acesso,
     nf_cancela_id |-> nf_cancela_id, protocolo |-> protocolo]

NfFieldsInputs ==
    {NfFields("CH1", "CH2", "", ""), NfFields("", "CH2", "P1", ""),
     NfFields("", "", "P1", "P2"), NfFields("", "", "", "P2"),
     NfFields("", "", "", "")}

NoNfFields == NfFields("", "", "", "")

\* params of get_batch_status and get_nfse_by_rps: the two keys the access
\* key is read from, each absent (<<>>) or present with a value
Params(chave_acesso, lote_protocolo) ==
    [chave_acesso |-> chave_acesso, lote_protocolo |-> lote_protocolo]

NoParams == Params(<<>>, <<>>)

ParamsInputs ==
    {Params(c, l) : c \in {<<>>, <<"">>, <<"CH1">>}, l \in {<<>>, <<"">>, <<"CH2">>}}

\* a handler activation: name and position, the value it returned (result,
\* errors: <<>> when errors has no 'error' key) or the exception it raised,
\* the requests it posted, for each call of baixar_danfse_pdf it made
\* whether the call yielded a PDF, and the keys it called consultar_nfse with
Handler(name, pc) ==
    [name |-> name, pc |-> pc, result |-> EmptyResult, errors |-> <<>>,
     raised |-> <<>>, reply |-> NoReply, response |-> NoResponse, posted |-> <<>>,
     downloads |-> <<>>, i |-> 0, results |-> <<>>, errlist |-> <<>>,
     params |-> NoParams, consulted |-> <<>>, nf_fields |-> NoNfFields]

Idle == Handler("", "idle")

\* pfx_file and os.path.exists(pfx_file)
pfxFileOk(pfx_file) == pfx_file # "" /\ pfx_file \in Paths /\ Files[pfx_file].exists

\* NFSeThema.__init__
NewClient(pfx_file, pfx_passwd) ==
    [pfx_file |-> pfx_file, pfx_passwd |-> pfx_passwd,
     rps_batch |-> <<>>, cancel_batch |-> <<>>]

\* no NFSeThema object
NoClient == NewClient("", "")

ClientIdle == self = NoClient /\ h = Idle /\ portal = <<>>

Free == h.pc \in {"idle", "done"}

\* the RPS numbers of the rps_fields given to add_rps
RpsNumbers == {1, 2}

\* add_rps(rps_fields) for RPS number n
AddRps(n) ==
    /\ Free
    /\ Len(self.rps_batch) + Len(self.cancel_batch) < MaxBatch
    /\ self' = [self EXCEPT !.rps_batch =
                   Append(@, [xml |-> build_nfse_xml(n), rps_fields |-> n])]
    /\ h' = Handler("add_rps", "done")
    /\ UNCHANGED <<call, portal>>

\* clear_rps_batch()
ClearRpsBatch ==
    /\ Free
    /\ self.rps_batch # <<>>
    /\ self' = [self EXCEPT !.rps_batch = <<>>]
    /\ h' = Handler("clear_rps_batch", "done")
    /\ UNCHANGED <<call, portal>>

\* '<DPS' in xml_signed and NS_NFSE in xml_signed
padraoNacional(xml_signed) ==
    /\ \E k \in 1..Len(xml_signed) : xml_signed[k].t = "start" /\ xml_signed[k].tag = "DPS"
    /\ \E k \in 1..Len(xml_signed) : xml_signed[k].ns = NS_NFSE

itemsToSend_last(rps_batch) == <<rps_batch[Len(rps_batch)]>>

\* the items of rps_batch that one send_batch call signs and sends
itemsToSend(rps_batch) == <<rps_batch[1]>>

\* send_batch, up to the call of assinar_xml
SendBatchBegin ==
    /\ Free
    /\ Len(portal) < MaxPosts
    /\ UNCHANGED <<self, portal>>
    /\ IF ~pfxFileOk(self.pfx_file)
       THEN /\ h' = [Handler("send_batch", "done") EXCEPT
                       !.raised = <<"Certificado PFX nao encontrado ou nao especificado">>]
            /\ UNCHANGED call
       ELSE IF self.pfx_passwd = ""
       THEN /\ h' = [Handler("send_batch", "done") EXCEPT
                       !.raised = <<"Senha do certificado nao especificada">>]
            /\ UNCHANGED call
       ELSE IF self.rps_batch = <<>>
       THEN /\ h' = [Handler("send_batch", "done") EXCEPT
                       !.errors = <<"Nenhum RPS no lote">>]
            /\ UNCHANGED call
       ELSE /\ h' = [Handler("send_batch", "signing") EXCEPT !.i = 1]
            /\ call' = [c \in {1} |->
                          NewCall(itemsToSend(self.rps_batch)[1].xml,
                                  <<self.pfx_file, self.pfx_passwd>>, "infDPS")]

\* the handler waits for assinar_xml
Signing ==
    /\ h.pc = "signing"
    /\ Next

\* str(e)
strExc(e) == e.msg

\* lxml takes the text as the text of an element: it raises ValueError for
\* text with NULL bytes or control characters
xmlCompatible(text) == text # CHAVE_CONTROL

\* what send_batch returns for the response of enviar_nfse_pkcs12
sendBatchResult(response, xml_signed) ==
    LET mensagem_erro == response.mensagem_erro
    IN  IF (mensagem_erro # <<>> /\ mensagem_erro[1] # "") \/ response.status \notin {200, 201}
        THEN LET error_msg == IF mensagem_erro # <<>> /\ mensagem_erro[1] # ""
                              THEN mensagem_erro[1] ELSE response.body
             IN  [result |-> Result({"ws.response", "erros", "mensagem_erro"}, "ERRO", "", "",
                                    "", <<>>, response.erros, mensagem_erro),
                  errors |-> <<error_msg>>]
        ELSE IF response.status \in {200, 201}
        THEN LET protocolo == IF response.chave_acesso # "" THEN response.chave_acesso
                              ELSE IF response.id_dps # "" THEN response.id_dps
                              ELSE "PROCESSADO"
             IN  IF xmlCompatible(protocolo)
                 THEN [result |-> Result({"ws.response", "chave_acesso", "id_dps",
                                          "xml_nfse", "xml_enviado"}, protocolo,
                                         response.chave_acesso, response.id_dps,
                                         response.xml_nfse, xml_signed, <<>>, <<>>),
                       errors |-> <<>>]
                 ELSE \* the result is half filled when the exception is caught
                      [result |-> Result({"chave_acesso", "id_dps", "xml_nfse",
                                          "xml_enviado"}, "",
                                         response.chave_acesso, response.id_dps,
                                         response.xml_nfse, xml_signed, <<>>, <<>>),
                       errors |-> <<"All strings must be XML compatible">>]
        ELSE [result |-> Result({"ws.response"}, "ERRO", "", "", "", <<>>, <<>>, <<>>),
              errors |-> <<response.body>>]

\* send_batch, from the return of assinar_xml on
SendBatchSubmit ==
    /\ h.name = "send_batch" /\ h.pc = "signing"
    /\ call[1].pc \in {"returned", "raised"}
    /\ UNCHANGED <<self, call>>
    /\ IF call[1].pc = "raised"
       THEN /\ h' = [h EXCEPT !.pc = "done", !.errors = <<strExc(call[1].exc)[1]>>]
            /\ UNCHANGED portal
       ELSE IF ~padraoNacional(call[1].xml_final)
       THEN /\ h' = [h EXCEPT !.pc = "done",
                               !.errors = <<"XML nao esta no padrao nacional.">>]
            /\ UNCHANGED portal
       ELSE LET dps_b64 == gerar_dpsXmlGZipB64(call[1].xml_final)
            IN  /\ portal' = Append(portal, [url |-> URL_PRODUCAO, payload |-> dps_b64])
                /\ \/ \* the request fails: enviar_nfse_pkcs12 re-raises
                      h' = [h EXCEPT !.pc = "done", !.errors = <<"RequestException">>,
                                     !.posted = Append(@, dps_b64)]
                   \/ \E reply \in Replies :
                        IF baixaDanfse(reply)
                        THEN h' = [h EXCEPT !.pc = "download", !.reply = reply,
                                            !.posted = Append(@, dps_b64)]
                        ELSE LET response == enviar_nfse_pkcs12(reply, 0)
                                 out == sendBatchResult(response, call[1].xml_final)
                             IN  h' = [h EXCEPT !.pc = "done", !.reply = reply,
                                                !.response = response,
                                                !.result = out.result,
                                                !.errors = out.errors,
                                                !.posted = Append(@, dps_b64)]

\* one turn of the download loop of enviar_nfse_pkcs12: baixar_danfse_pdf
\* yields a PDF or None; the loop ends at the first PDF or after
\* max_retries turns, and send_batch goes on with the dict returned
DownloadDanfse ==
    /\ h.name = "send_batch" /\ h.pc = "download"
    /\ Len(h.downloads) < max_retries
    /\ UNCHANGED <<self, call, portal>>
    /\ \E pdf_base64 \in BOOLEAN :
         LET downloads == Append(h.downloads, pdf_base64)
         IN  IF pdf_base64 \/ Len(downloads) = max_retries
             THEN LET response == enviar_nfse_pkcs12(h.reply,
                                      IF pdf_base64 THEN Len(downloads) ELSE 0)
                      out == sendBatchResult(response, call[1].xml_final)
                  IN  h' = [h EXCEPT !.pc = "done", !.downloads = downloads,
                                     !.response = response,
                                     !.result = out.result, !.errors = out.errors]
             ELSE h' = [h EXCEPT !.downloads = downloads]

\* a or b
orElse(a, b) == IF a # "" THEN a ELSE b

chaveDe_swapped(nf_fields) ==
    orElse(orElse(nf_fields.chave_acesso, nf_fields.nf_chave_acesso),
           orElse(nf_fields.protocolo, nf_fields.nf_cancela_id))

\* the key add_to_cancel settles on: "" when it finds none
chaveDe(nf_fields) ==
    orElse(orElse(nf_fields.nf_chave_acesso, nf_fields.chave_acesso),
           orElse(nf_fields.nf_cancela_id, nf_fields.protocolo))

\* add_to_cancel(nf_fields)
AddToCancel(nf_fields) ==
    /\ Free
    /\ Len(self.rps_batch) + Len(self.cancel_batch) < MaxBatch
    /\ UNCHANGED <<call, portal>>
    /\ IF chaveDe(nf_fields) = ""
       THEN /\ h' = [Handler("add_to_cancel", "done") EXCEPT
                       !.raised = <<"Chave de acesso nao fornecida.">>,
                       !.nf_fields = nf_fields]
            /\ UNCHANGED self
       ELSE /\ self' = [self EXCEPT !.cancel_batch =
                           Append(@, [xml |-> build_cancelamento_xml(chaveDe(nf_fields)),
                                      nf_fields |-> nf_fields,
                                      chave_acesso |-> chaveDe(nf_fields)])]
            /\ h' = [Handler("add_to_cancel", "done") EXCEPT !.nf_fields = nf_fields]

\* clear_cancel_batch()
ClearCancelBatch ==
    /\ Free
    /\ self.cancel_batch # <<>>
    /\ self' = [self EXCEPT !.cancel_batch = <<>>]
    /\ h' = Handler("clear_cancel_batch", "done")
    /\ UNCHANGED <<call, portal>>

\* cancel, up to the first call of assinar_xml
CancelBegin ==
    /\ Free
    /\ Len(portal) + Len(self.cancel_batch) <= MaxPosts
    /\ UNCHANGED <<self, portal>>
    /\ IF ~pfxFileOk(self.pfx_file)
       THEN /\ h' = [Handler("cancel", "done") EXCEPT
                       !.raised = <<"Certificado PFX nao encontrado ou nao especificado">>]
            /\ UNCHANGED call
       ELSE IF self.pfx_passwd = ""
       THEN /\ h' = [Handler("cancel", "done") EXCEPT
                       !.raised = <<"Senha do certificado nao especificada">>]
            /\ UNCHANGED call
       ELSE IF self.cancel_batch = <<>>
       THEN /\ h' = [Handler("cancel", "done") EXCEPT
                       !.errlist = <<"Nenhum cancelamento no lote">>]
            /\ UNCHANGED call
       ELSE /\ h' = [Handler("cancel", "signing") EXCEPT !.i = 1]
            /\ call' = [c \in {1} |->
                          NewCall(self.cancel_batch[1].xml,
                                  <<self.pfx_file, self.pfx_passwd>>, "infPedReg")]

\* the replies to a cancellation event: <<status_code, text>>
CancelReplies == {200, 201, 400} \X {"", "motivo"}

\* cancel moves on to the next item of the loop, or returns
cancelAdvance(hh) ==
    IF hh.i < Len(self.cancel_batch)
    THEN /\ h' = [hh EXCEPT !.i = @ + 1]
         /\ call' = [c \in {1} |->
                       NewCall(self.cancel_batch[hh.i + 1].xml,
                               <<self.pfx_file, self.pfx_passwd>>, "infPedReg")]
    ELSE /\ h' = [hh EXCEPT !.pc = "done"]
         /\ UNCHANGED call

\* one turn of the loop of cancel, from the return of assinar_xml on
CancelSubmit ==
    /\ h.name = "cancel" /\ h.pc = "signing"
    /\ call[1].pc \in {"returned", "raised"}
    /\ UNCHANGED self
    /\ IF call[1].pc = "raised"
       THEN /\ cancelAdvance([h EXCEPT !.errlist = Append(@, strExc(call[1].exc)[1])])
            /\ UNCHANGED portal
       ELSE LET evento_b64 == gerar_dpsXmlGZipB64(call[1].xml_final)
                item == self.cancel_batch[h.i]
            IN  /\ portal' = Append(portal,
                         [url |-> URL_PRODUCAO \o "/" \o item.chave_acesso \o "/eventos",
                          payload |-> evento_b64])
                /\ \/ cancelAdvance([h EXCEPT !.errlist = Append(@, "RequestException"),
                                               !.posted = Append(@, evento_b64)])
                   \/ \E reply \in CancelReplies :
                        IF reply[1] \in {200, 201}
                        THEN cancelAdvance([h EXCEPT !.results = Append(@, "Confirmacao"),
                                                    !.posted = Append(@, evento_b64)])
                        ELSE cancelAdvance([h EXCEPT
                                 !.errlist = Append(@, "ERRO: " \o
                                     orElse(reply[2], "Erro ao cancelar NFSe")),
                                 !.posted = Append(@, evento_b64)])

NextClient ==
    \/ \E n \in RpsNumbers : AddRps(n)
    \/ ClearRpsBatch
    \/ SendBatchBegin
    \/ Signing
    \/ SendBatchSubmit
    \/ DownloadDanfse
    \/ \E nf_fields \in NfFieldsInputs : AddToCancel(nf_fields)
    \/ ClearCancelBatch
    \/ CancelBegin
    \/ CancelSubmit

\* <<pfx_file, pfx_passwd>> of the object
ClientCredentials ==
    {<<"rsa.pfx", "s3">>, <<"nopass.pfx", "">>, <<"rsa.pfx", "bad">>, <<"", "s3">>}

InitClient ==
    /\ \E cr \in ClientCredentials : self = NewClient(cr[1], cr[2])
    /\ h = Idle
    /\ portal = <<>>
    /\ call = <<>>

SpecClient == InitClient /\ [][NextClient]_vars

\* ---- consulting the portal
\* dict.get(key, default)
getOr(opt, default) == IF opt # <<>> THEN opt[1] ELSE default

\* the key get_batch_status consults with
chaveBatchStatus(params) ==
    LET protocolo == getOr(params.lote_protocolo, "")
    IN  getOr(params.chave_acesso, protocolo)

\* the key get_nfse_by_rps consults with
chaveNfseByRps(params) ==
    orElse(getOr(params.chave_acesso, ""), getOr(params.lote_protocolo, ""))

\* what consultar_nfse returns: None (kind "none": a status other than 200,
\* or an exception), or the JSON value of the reply (an empty one, a dict
\* with or without an 'xml' entry, a list), or {'xml': ...} for an XML
\* reply, or {'body': ...} for any other text
Consulta(kind, xml) == [kind |-> kind, xml |-> xml]

ConsultaResponses ==
    {Consulta("none", ""), Consulta("empty", ""), Consulta("dict", ""),
     Consulta("dict", "<NFSe><nNFSe>7</nNFSe></NFSe>"), Consulta("list", ""),
     Consulta("xml", "<NFSe><nNFSe>7</nNFSe></NFSe>"), Consulta("xml", "<NFSe/>"),
     Consulta("body", "texto"), Consulta("body", "")}

CHAVE_NAO_FORNECIDA == "Chave de acesso nao fornecida."

\* the ws.response of get_batch_status
situacao(response) == "Situacao 4"

\* the ws.response of get_nfse_by_rps: the number of the note, or the reply
\* itself when it is not XML
numero(response) ==
    IF response.kind = "body" THEN response.xml
    ELSE IF response.xml = "<NFSe><nNFSe>7</nNFSe></NFSe>" THEN "Numero 7"
    ELSE "Numero "

\* the part get_batch_status and get_nfse_by_rps share: the consultation
\* with key chave_acesso and the (result, error) pair it ends in
consultar(name, params, chave_acesso, msgs) ==
    LET h0 == [Handler(name, "done") EXCEPT !.params = params]
    IN
    IF chave_acesso = ""
    THEN h' = [h0 EXCEPT !.errors = <<CHAVE_NAO_FORNECIDA>>]
    ELSE IF self.pfx_file = "" \/ self.pfx_passwd = ""
    THEN h' = [h0 EXCEPT !.errors = <<"Certificado nao configurado">>]
    ELSE \E response \in ConsultaResponses :
           LET hh == [h0 EXCEPT !.consulted = <<chave_acesso>>]
           IN  IF response.kind \in {"none", "empty"}
               THEN h' = [hh EXCEPT !.errors = <<msgs[1]>>]
               ELSE IF response.kind = "list"
               THEN h' = [hh EXCEPT !.errors =
                            <<msgs[3] \o "'list' object has no attribute 'get'">>]
               ELSE IF response.xml = ""
               THEN h' = [hh EXCEPT !.errors = <<msgs[2]>>]
               ELSE h' = [hh EXCEPT !.result =
                            [EmptyResult EXCEPT !.keys = {"ws.response"},
                                                !.protocolo =
                                                    IF name = "get_batch_status"
                                                    THEN situacao(response)
                                                    ELSE numero(response)]]

\* get_batch_status(params)
GetBatchStatus(params) ==
    /\ Free
    /\ UNCHANGED <<self, call, portal>>
    /\ consultar("get_batch_status", params, chaveBatchStatus(params),
                 <<"NFSe nao encontrada no Portal Nacional",
                   "Resposta vazia do Portal Nacional",
                   "Erro ao consultar Portal Nacional: ">>)

\* get_nfse_by_rps(params)
GetNfseByRps(params) ==
    /\ Free
    /\ UNCHANGED <<self, call, portal>>
    /\ consultar("get_nfse_by_rps", params, chaveNfseByRps(params),
                 <<"NFSe nao encontrada", "Resposta vazia", "">>)

NextConsulta ==
    \/ \E params \in ParamsInputs : GetBatchStatus(params)
    \/ \E params \in ParamsInputs : GetNfseByRps(params)

SpecConsulta == InitClient /\ [][NextConsulta]_vars

\* the download loop runs on once entered: baixar_danfse_pdf returns (its
\* requests have a timeout of 30 s) and the loop sleeps 2 s between turns
SpecClientFair == SpecClient /\ WF_vars(DownloadDanfse)

\* one call, on any input
Init ==
    \E x \in XmlInputs(MaxKids), cr \in Credentials, t \in Tags :
        /\ call = [c \in {1} |-> NewCall(x, cr, t)]
        /\ ClientIdle

Spec == Init /\ [][Next]_vars

\* number of calls in flight in the concurrent specification
MaxCalls == 3

\* <<xml_input, <<pfx_path, pfx_password>>, tag_to_sign>>
ConcurrentInputs ==
    {<<tostringDecl(DPS(<<prest, infDPS_b, topComment>>)), <<"rsa.pfx", "s3">>, "infDPS">>,
     <<tostringDecl(DPS(<<infDPS_a, infPedReg>>)), <<"chain.pfx", "s3">>, "infDPS">>,
     <<tostringDecl(DPS(<<infDPS_a, infPedReg>>)), <<"rsa.pfx", "bad">>, "infPedReg">>}

\* several calls at once, their sections interleaved
InitConcurrent ==
    \E in \in [1..MaxCalls -> ConcurrentInputs] :
        /\ call = [c \in 1..MaxCalls |-> NewCall(in[c][1], in[c][2], in[c][3])]
        /\ ClientIdle

SpecConcurrent == InitConcurrent /\ [][Next]_vars

\* targets that differ in their comments only, and one that differs in text
infDPS_b_nocomment == Elem("infDPS", NS_NFSE, <<<<"versao", "1.00">>, IdAttr("x9Z")>>,
                           "ab", <<>>, "\n")
infDPS_b_comment2  == Elem("infDPS", NS_NFSE, <<<<"versao", "1.00">>, IdAttr("x9Z")>>,
                           "", <<Comment("zz", "ab")>>, "\n")
infDPS_b_text      == Elem("infDPS", NS_NFSE, <<<<"versao", "1.00">>, IdAttr("x9Z")>>,
                           "ax", <<Comment("c", "b")>>, "\n")

PairInputs ==
    {tostringDecl(DPS(<<prest, t>>)) :
        t \in {infDPS_b, infDPS_b_nocomment, infDPS_b_comment2, infDPS_b_text}}

\* two calls with one credential, on documents that may differ in comments
InitPair ==
    \E x1 \in PairInputs, x2 \in PairInputs :
        /\ call = [c \in {1, 2} |->
                    NewCall(IF c = 1 THEN x1 ELSE x2, <<"rsa.pfx", "s3">>, "infDPS")]
        /\ ClientIdle

SpecPair == InitPair /\ [][Next]_vars

\* a Signature element left in the document by an earlier signer
oldSignature ==
    SubElement(SubElement(SubElement(Ds("Signature", <<>>, ""),
                                     Ds("SignedInfo", <<>>, "")),
                          Ds("SignatureValue", <<>>, "b64(old)")),
               Ds("KeyInfo", <<>>, ""))

\* documents that may have been signed before
ResignInputs(n) ==
    {tostringDecl(DPS(kids)) :
        kids \in SeqsUpTo({infDPS_a, infDPS_b, oldSignature, prest}, n)}

\* one call with a good credential on such a document
InitResign ==
    \E x \in ResignInputs(MaxKids), p \in {"rsa.pfx", "chain.pfx"} :
        /\ call = [c \in {1} |-> NewCall(x, <<p, "s3">>, "infDPS")]
        /\ ClientIdle

SpecResign == InitResign /\ [][Next]_vars

\* ================================================================ utils
\* text is a sequence of characters; None is <<>> and a value v is <<v>>
Digits == {"0", "1", "2", "3", "4", "5", "6", "7", "8", "9"}

isDigits(s) == \A k \in 1..Len(s) : s[k] \in Digits

\* s.count(c)
count(s, c) == Cardinality({k \in 1..Len(s) : s[k] = c})

\* s.replace(c, "")
remove(s, c) == LET keep(x) == x # c IN SelectSeq(s, keep)

\* s.replace(a, b)
replace(s, a, b) == [k \in 1..Len(s) |-> IF s[k] = a THEN b ELSE s[k]]

RECURSIVE lstrip(_)
lstrip(s) == IF s # <<>> /\ Head(s) = " " THEN lstrip(Tail(s)) ELSE s

RECURSIVE rstrip(_)
rstrip(s) ==
    IF s # <<>> /\ s[Len(s)] = " " THEN rstrip(SubSeq(s, 1, Len(s) - 1)) ELSE s

\* s.strip()
strip(s) == rstrip(lstrip(s))

\* the positions where " - " starts in s
dashes(s) ==
    {k \in 1..(Len(s) - 2) : s[k] = " " /\ s[k + 1] = "-" /\ s[k + 2] = " "}

\* s.split(" - ", 1)[0]
beforeDash(s) ==
    LET k == CHOOSE i \in dashes(s) : \A j \in dashes(s) : i <= j
    IN  SubSeq(s, 1, k - 1)

RECURSIVE splitAt(_, _, _)
\* s.split(c): the groups between the occurrences of c (cur is the group
\* being read)
splitAt(s, c, cur) ==
    IF s = <<>> THEN <<cur>>
    ELSE IF Head(s) = c THEN <<cur>> \o splitAt(Tail(s), c, <<>>)
    ELSE splitAt(Tail(s), c, Append(cur, Head(s)))

\* g.zfill(2), for g of one or two characters
zfill2(g) == IF Len(g) < 2 THEN <<"0">> \o g ELSE g

\* re.match(r"^(\d{1,2})\.(\d{1,2})(?:\.(\d{1,2}))?$", s): the groups, <<>>
\* when s does not match
matchDotted(s) ==
    LET g == splitAt(s, ".", <<>>)
    IN  IF Len(g) \in {2, 3} /\ \A k \in 1..Len(g) : Len(g[k]) \in {1, 2} /\ isDigits(g[k])
        THEN g ELSE <<>>

\* re.sub(r"\D", "", s)
onlyDigits(s) == LET keep(x) == x \in Digits IN SelectSeq(s, keep)

ctn_to_6digits_short(cod) ==
    IF cod = <<>> THEN <<>>
    ELSE LET s0 == strip(cod)
             s  == IF dashes(s0) # {} THEN strip(beforeDash(s0)) ELSE s0
             m  == matchDotted(s)
             digits == onlyDigits(s)
         IN  IF m # <<>>
             THEN IF Len(m) = 3
                  THEN <<zfill2(m[1]) \o zfill2(m[2]) \o zfill2(m[3])>>
                  ELSE <<zfill2(m[1]) \o zfill2(m[2])>>
             ELSE IF Len(digits) = 4 THEN <<digits \o <<"0", "1">>>>
             ELSE IF Len(digits) = 5 THEN <<<<"0">> \o digits>>
             ELSE IF Len(digits) = 6 THEN <<digits>>
             ELSE <<>>

\* ctn_to_6digits(cod)
ctn_to_6digits(cod) ==
    IF cod = <<>> THEN <<>>
    ELSE LET s0 == strip(cod)
             s  == IF dashes(s0) # {} THEN strip(beforeDash(s0)) ELSE s0
             m  == matchDotted(s)
             digits == onlyDigits(s)
         IN  IF m # <<>>
             THEN IF Len(m) = 3
                  THEN <<zfill2(m[1]) \o zfill2(m[2]) \o zfill2(m[3])>>
                  ELSE <<zfill2(m[1]) \o zfill2(m[2]) \o <<"0", "1">>>>
             ELSE IF Len(digits) = 4 THEN <<digits \o <<"0", "1">>>>
             ELSE IF Len(digits) = 5 THEN <<<<"0">> \o digits>>
             ELSE IF Len(digits) = 6 THEN <<digits>>
             ELSE <<>>

RECURSIVE dropLeadingZeros(_)
dropLeadingZeros(s) ==
    IF s # <<>> /\ Head(s) = "0" THEN dropLeadingZeros(Tail(s)) ELSE s

RECURSIVE dropTrailingZeros(_)
dropTrailingZeros(s) ==
    IF s # <<>> /\ s[Len(s)] = "0" THEN dropTrailingZeros(SubSeq(s, 1, Len(s) - 1))
    ELSE s

\* the number with those integer and fraction digits
Number(int, frac) == [int |-> dropLeadingZeros(int), frac |-> dropTrailingZeros(frac)]

\* float(s) for text of digits, points and other characters: <<>> when it
\* raises ValueError
float(s) ==
    LET g == splitAt(s, ".", <<>>)
    IN  IF Len(g) = 1 /\ g[1] # <<>> /\ isDigits(g[1])
        THEN <<Number(g[1], <<>>)>>
        ELSE IF Len(g) = 2 /\ g[1] \o g[2] # <<>> /\ isDigits(g[1] \o g[2])
        THEN <<Number(g[1], g[2])>>
        ELSE <<>>

\* to_float(v)
to_float(v) ==
    IF v = <<>> THEN <<>>
    ELSE LET s0 == remove(remove(strip(v), "%"), " ")
             s  == IF count(s0, ",") = 1 /\ count(s0, ".") > 1
                   THEN replace(remove(s0, "."), ",", ".")
                   ELSE s0
         IN  float(replace(s, ",", "."))

\* ---- inputs
\* longest service code among the inputs of ctn_to_6digits
MaxCodeLen == 7
\* longest text among the inputs of to_float
MaxTextLen == 4
\* largest number of thousands groups among the inputs of to_float
MaxGroups == 2

CodeInputs ==
    SeqsUpTo({"0", "1", "5", "."}, MaxCodeLen)
    \cup {<<"1", ".", "0", "5", " ", "-", " ", "x">>, <<" ", "0", "1", "0", "5", " ">>,
          <<"1", ".", "0", "5", ".", "0", "1", "5">>, <<"x", "1", "x", "0", "x", "5">>,
          <<"1", "-", "0", "5", "-", "0", "1">>, <<"1", "0", "5", "0", "1", "0", " ", "-", " ", "1">>,
          <<" ", "-", " ", "0", "1", "0", "5">>}

RECURSIVE groupsOf(_)
\* n thousands groups, each with its leading point
groupsOf(n) == IF n = 0 THEN <<>> ELSE <<".", "2", "3", "4">> \o groupsOf(n - 1)

\* values in the Brazilian format: 1.234,56 and the like
BrazilianInputs ==
    {head \o groupsOf(n) \o <<",">> \o dec :
        head \in {<<"1">>, <<"1", "2">>, <<"1", "2", "3">>},
        n \in 1..MaxGroups,
        dec \in {<<"5">>, <<"5", "6">>}}

FloatInputs ==
    SeqsUpTo({"0", "1", ".", ",", "%", "x"}, MaxTextLen) \cup BrazilianInputs

\* ---- the calls
Called(name, arg) == [name |-> name, pc |-> "called", arg |-> arg, ret |-> <<>>]

CtnTo6Digits ==
    /\ h.name = "ctn_to_6digits" /\ h.pc = "called"
    /\ h' = [h EXCEPT !.pc = "done", !.ret = ctn_to_6digits(h.arg)]
    /\ UNCHANGED <<call, self, portal>>

ToFloat ==
    /\ h.name = "to_float" /\ h.pc = "called"
    /\ h' = [h EXCEPT !.pc = "done", !.ret = to_float(h.arg)]
    /\ UNCHANGED <<call, self, portal>>

NextUtils == CtnTo6Digits \/ ToFloat

InitUtils ==
    /\ \/ \E cod \in CodeInputs : h = Called("ctn_to_6digits", cod)
       \/ \E v \in FloatInputs : h = Called("to_float", v)
    /\ call = <<>>
    /\ self = NoClient
    /\ portal = <<>>

SpecUtils == InitUtils /\ [][NextUtils]_vars

TypeOK == \A c \in DOMAIN call : call[c].pc \in
    {"load_pfx", "parse_xml", "locate", "check_id", "digest", "build", "sign",
     "keyinfo", "addnext", "serialize", "returned", "raised"}

\* ================================================================ claims
\* the document the caller handed in, as a tree
InputDoc(c) == fromstring(call[c].xml_input).root

\* the document the call returned, as a tree
Output(c) == fromstring(call[c].xml_final).root

IsSignature(n) == n.kind = "elem" /\ n.tag = "Signature" /\ n.ns = NS_DS

IsTarget(n, tag) == n.kind = "elem" /\ n.tag = tag /\ n.ns = NS_NFSE

\* tags of the child elements of e, in document order
kidTags(e) == [i \in 1..Len(e.kids) |-> <<e.kids[i].ns, e.kids[i].tag>>]

RECURSIVE Descendants(_)
\* the nodes below e, at any depth
Descendants(e) ==
    UNION {{e.kids[i]} \cup Descendants(e.kids[i]) : i \in 1..Len(e.kids)}

\* the Signature elements of a document
Signatures(doc) == {n \in Descendants(doc) : IsSignature(n)}

SignedInfoOf(sig) == sig.kids[1]
ReferenceOf(sig) == SignedInfoOf(sig).kids[3]
DigestValueOf(sig) == ReferenceOf(sig).kids[3].text

Returned(c) == call[c].pc = "returned"

\* C1: after a successful call the Signature element is the sibling right
\* after the located target element and not a child of it, and the other
\* children of the root keep their relative order.
C1_SignatureIsNextSibling ==
    \A c \in DOMAIN call : Returned(c) =>
        LET in  == InputDoc(c).kids
            out == Output(c).kids
            t   == call[c].target_element
        IN  /\ IsTarget(in[t], call[c].tag_to_sign)
            /\ Len(out) = Len(in) + 1
            /\ out[t] = in[t]
            /\ IsSignature(out[t + 1])
            /\ \A n \in Descendants(out[t]) : ~IsSignature(n)
            /\ \A i \in 1..Len(in) : out[IF i <= t THEN i ELSE i + 1] = in[i]

\* a signed document whose target has siblings before and after it
C1_Witness ==
    \E c \in DOMAIN call :
        /\ Returned(c)
        /\ call[c].target_element > 1
        /\ call[c].target_element < Len(InputDoc(c).kids)

\* C2: the DigestValue of a signed document is base64(SHA-1(C14N(target)))
\* for the target element located in the input document.
C2_DigestOfTarget ==
    \A c \in DOMAIN call : Returned(c) =>
        /\ Signatures(Output(c)) # {}
        /\ \A sig \in Signatures(Output(c)) :
            DigestValueOf(sig) =
                b64encode(sha1(render(c14nNode(
                    InputDoc(c).kids[call[c].target_element], FALSE, FALSE))))

\* a signed document whose target holds a comment, text and a tail
C2_Witness ==
    \E c \in DOMAIN call :
        /\ Returned(c)
        /\ Signatures(Output(c)) # {}
        /\ LET target == InputDoc(c).kids[call[c].target_element]
           IN  /\ target.tail # ""
               /\ \E n \in Descendants(target) : n.kind = "comment"
               /\ Len(InputDoc(c).kids) > 1

\* C3: the URI of the one Reference in SignedInfo is "#" followed by the Id
\* of the target element, for every non-empty Id.
C3_ReferenceUri ==
    \A c \in DOMAIN call : Returned(c) =>
        /\ Signatures(Output(c)) # {}
        /\ \A sig \in Signatures(Output(c)) :
            LET id == get(InputDoc(c).kids[call[c].target_element], "Id")
                refs == {i \in 1..Len(SignedInfoOf(sig).kids) :
                            SignedInfoOf(sig).kids[i].tag = "Reference"}
            IN  /\ id # <<>> /\ id[1] # ""
                /\ Cardinality(refs) = 1
                /\ \A i \in refs :
                     get(SignedInfoOf(sig).kids[i], "URI") = <<"#" \o id[1]>>

\* a signed document whose target has an Id of mixed letters and digits,
\* written after another attribute
C3_Witness ==
    \E c \in DOMAIN call :
        /\ Returned(c)
        /\ Signatures(Output(c)) # {}
        /\ get(InputDoc(c).kids[call[c].target_element], "Id") = <<"x9Z">>

Ds_(tag) == <<NS_DS, tag>>

\* the Signature element has the children and the order of the schema
WellFormedSignature(sig) ==
    /\ kidTags(sig) = <<Ds_("SignedInfo"), Ds_("SignatureValue"), Ds_("KeyInfo")>>
    /\ kidTags(sig.kids[3]) = <<Ds_("X509Data")>>
    /\ kidTags(sig.kids[3].kids[1]) = <<Ds_("X509Certificate")>>
    /\ kidTags(sig.kids[1]) =
         <<Ds_("CanonicalizationMethod"), Ds_("SignatureMethod"), Ds_("Reference")>>
    /\ kidTags(sig.kids[1].kids[3]) =
         <<Ds_("Transforms"), Ds_("DigestMethod"), Ds_("DigestValue")>>
    /\ LET Transforms == sig.kids[1].kids[3].kids[1]
       IN  /\ kidTags(Transforms) = <<Ds_("Transform"), Ds_("Transform")>>
           /\ get(Transforms.kids[1], "Algorithm") = <<ALG_ENVELOPED>>
           /\ get(Transforms.kids[2], "Algorithm") = <<ALG_C14N>>

\* C4: every produced Signature has exactly SignedInfo, SignatureValue,
\* KeyInfo (X509Data/X509Certificate) in that order; SignedInfo has
\* CanonicalizationMethod, SignatureMethod, Reference; the Reference has
\* Transforms, DigestMethod, DigestValue, with the two Transforms
\* [enveloped-signature, C14N 1.0].
C4_SignatureStructure ==
    \A c \in DOMAIN call :
        /\ call[c].pc \in {"addnext", "serialize", "returned"}
              => WellFormedSignature(call[c].Signature)
        /\ Returned(c) =>
              /\ Signatures(Output(c)) # {}
              /\ \A sig \in Signatures(Output(c)) : WellFormedSignature(sig)

\* a returned document that carries a Signature with a certificate in it
C4_Witness ==
    \E c \in DOMAIN call :
        /\ Returned(c)
        /\ \E sig \in Signatures(Output(c)) :
              sig.kids[3].kids[1].kids[1].text = b64encode("DER-B")

\* C5: canonicalising and hashing the target subtree taken from the final
\* signed document gives the DigestValue stored in its Signature.
C5_RoundTrip ==
    \A c \in DOMAIN call : Returned(c) =>
        LET out == Output(c)
            targets == {i \in 1..Len(out.kids) : IsTarget(out.kids[i], call[c].tag_to_sign)}
        IN  /\ targets # {}
            /\ Signatures(out) # {}
            /\ \A sig \in Signatures(out) :
                 LET t == CHOOSE i \in targets : \A j \in targets : i <= j
                 IN  b64encode(sha1(render(c14nNode(out.kids[t], FALSE, FALSE))))
                        = DigestValueOf(sig)

\* a signed document whose target has children, and a sibling after the
\* Signature
C5_Witness ==
    \E c \in DOMAIN call :
        /\ Returned(c)
        /\ LET out == Output(c)
           IN  /\ Len(out.kids) > call[c].target_element + 1
               /\ out.kids[call[c].target_element].kids # <<>>
               /\ IsSignature(out.kids[call[c].target_element + 1])

SameInput(c, d) ==
    /\ call[c].xml_input = call[d].xml_input
    /\ call[c].pfx_path = call[d].pfx_path
    /\ call[c].pfx_password = call[d].pfx_password
    /\ call[c].tag_to_sign = call[d].tag_to_sign

Finished(c) == call[c].pc \in {"returned", "raised"}

HasMatch(e, tag) == \E n \in Descendants(e) : IsTarget(n, tag)

Located(c) == call[c].target_element # 0

\* C7 as stated: a matching element is found at any depth below the root
C7_FindsDescendant ==
    \A c \in DOMAIN call :
        (call[c].root # NoNode /\ call[c].pc # "locate"
            /\ HasMatch(InputDoc(c), call[c].tag_to_sign)) => Located(c)

\* C7 (amended): the locator finds the element named {namespace}tag only
\* among the direct children of the document root, a match deeper in the
\* tree is not found (ElementNotFound); of several matching children it
\* picks the first in document order.
C7_FirstMatchingChild ==
    \A c \in DOMAIN call :
        (call[c].root # NoNode /\ call[c].pc # "locate") =>
            LET in == InputDoc(c).kids
                t  == call[c].target_element
                tag == call[c].tag_to_sign
            IN  IF \E i \in 1..Len(in) : IsTarget(in[i], tag)
                THEN /\ t \in 1..Len(in)
                     /\ IsTarget(in[t], tag)
                     /\ \A j \in 1..(t - 1) : ~IsTarget(in[j], tag)
                ELSE /\ t = 0
                     /\ call[c].pc = "raised"
                     /\ call[c].exc = ElementoNaoEncontrado(tag)

\* a document with two matching children, the first of them located
C7_Witness ==
    \E c \in DOMAIN call :
        /\ Located(c)
        /\ \E j \in 1..Len(InputDoc(c).kids) :
              /\ j > call[c].target_element
              /\ IsTarget(InputDoc(c).kids[j], call[c].tag_to_sign)
              /\ InputDoc(c).kids[j] # InputDoc(c).kids[call[c].target_element]

\* nothing of a signature has been computed by call c
NothingSigned(c) ==
    /\ call[c].digest_b64 = ""
    /\ call[c].signature_b64 = ""
    /\ call[c].Signature = NoNode
    /\ call[c].xml_final = <<>>
    /\ ~Returned(c)

\* C8: when the document holds no element {NS_NFSE}tag, the call fails with
\* the "Elemento nao encontrado" error, computes no digest or signature and
\* returns no document.
C8_ElementNotFound ==
    \A c \in DOMAIN call :
        (call[c].root # NoNode /\ ~HasMatch(InputDoc(c), call[c].tag_to_sign)) =>
            /\ NothingSigned(c)
            /\ call[c].pc \in {"locate", "raised"}
            /\ call[c].pc = "raised" => call[c].exc = ElementoNaoEncontrado(call[c].tag_to_sign)

\* a call on a document with an infDPS of another namespace only has failed
C8_Witness ==
    \E c \in DOMAIN call :
        /\ call[c].pc = "raised"
        /\ call[c].root # NoNode
        /\ call[c].exc = ElementoNaoEncontrado(call[c].tag_to_sign)
        /\ ~HasMatch(InputDoc(c), call[c].tag_to_sign)
        /\ \E n \in Descendants(InputDoc(c)) : n.tag = call[c].tag_to_sign

\* C9: when the matched target has no Id attribute or an empty one, the call
\* fails with the "Atributo Id ausente" error, which differs from the
\* element-not-found error, and no Signature is built.
C9_MissingSignatureId ==
    \A c \in DOMAIN call :
        (Located(c) /\ get(InputDoc(c).kids[call[c].target_element], "Id") \in {<<>>, <<"">>}) =>
            /\ NothingSigned(c)
            /\ call[c].pc \in {"check_id", "raised"}
            /\ call[c].pc = "raised" =>
                  /\ call[c].exc = AtributoIdAusente(call[c].tag_to_sign)
                  /\ call[c].exc # ElementoNaoEncontrado(call[c].tag_to_sign)

\* a call has failed on a target whose Id is the empty string
C9_Witness ==
    \E c \in DOMAIN call :
        /\ Located(c)
        /\ call[c].pc = "raised"
        /\ get(InputDoc(c).kids[call[c].target_element], "Id") = <<"">>

\* the PKCS#12 file of call c exists but cannot be parsed, or the password
\* is not its passphrase, or it holds no private key or no certificate
BadCredential(c) ==
    LET f == Files[call[c].pfx_path]
    IN  /\ f.exists
        /\ \/ ~f.data.parsable
           \/ f.data.pass # call[c].pfx_password
           \/ f.data.key.type = "none"
           \/ f.data.cert = ""

InvalidCredential(e) == e \in {Pkcs12Error, PfxInvalidoError}

\* C10: with such a PKCS#12 file the call fails with an invalid-credential
\* error before the XML is parsed, and keeps no key or certificate.
C10_InvalidCredential ==
    \A c \in DOMAIN call :
        (BadCredential(c) /\ call[c].pc # "load_pfx") =>
            /\ call[c].pc = "raised"
            /\ InvalidCredential(call[c].exc)
            /\ call[c].root = NoNode
            /\ call[c].private_key = NoKey
            /\ call[c].certificate = NoCert
            /\ call[c].cert_b64 = ""
            /\ NothingSigned(c)

\* a call has failed on a PKCS#12 file that has a certificate but no key
C10_Witness ==
    \E c \in DOMAIN call :
        /\ call[c].pc = "raised"
        /\ Files[call[c].pfx_path].data.parsable
        /\ Files[call[c].pfx_path].data.key = NoKey
        /\ Files[call[c].pfx_path].data.cert # NoCert
        /\ fromstring(call[c].xml_input).ok

CredentialError(e) == e \in {FileNotFoundError, Pkcs12Error, PfxInvalidoError}

\* C11 as stated: on malformed XML the call fails with a parse error and no
\* key material has been extracted before
C11_ParseBeforeKeyMaterial ==
    \A c \in DOMAIN call :
        call[c].xml_input \in Malformed =>
            /\ call[c].private_key = NoKey
            /\ call[c].certificate = NoCert
            /\ NothingSigned(c)
            /\ Finished(c) => call[c].exc = XMLSyntaxError

\* C11 (amended): on malformed XML the call fails before any digest or
\* signature is computed; the PKCS#12 file is read first, so the failure is
\* the parse error only when the credential loads, the key and certificate
\* having been extracted by then, and the credential error otherwise.
C11_ParseErrorBeforeDigest ==
    \A c \in DOMAIN call :
        call[c].xml_input \in Malformed =>
            /\ NothingSigned(c)
            /\ call[c].root = NoNode
            /\ call[c].pc \in {"load_pfx", "parse_xml", "raised"}
            /\ call[c].pc = "raised" =>
                  \/ CredentialError(call[c].exc) /\ call[c].private_key = NoKey
                  \/ /\ call[c].exc = XMLSyntaxError
                     /\ call[c].private_key # NoKey
                     /\ call[c].certificate # NoCert

\* a call on a document cut short has failed with the parse error
C11_Witness ==
    \E c \in DOMAIN call :
        /\ call[c].xml_input \in Malformed
        /\ call[c].xml_input # <<>>
        /\ call[c].pc = "raised"
        /\ call[c].exc = XMLSyntaxError

\* the document of a finished call is whole: its target is followed by a
\* Signature of the full structure with digest and signature values
FullySigned(c) ==
    /\ fromstring(call[c].xml_final).ok
    /\ LET out == Output(c).kids
           t   == call[c].target_element
       IN  /\ t \in 1..(Len(out) - 1)
           /\ IsTarget(out[t], call[c].tag_to_sign)
           /\ IsSignature(out[t + 1])
           /\ WellFormedSignature(out[t + 1])
           /\ DigestValueOf(out[t + 1]) # ""
           /\ out[t + 1].kids[2].text # ""
           /\ out[t + 1].kids[3].kids[1].kids[1].text # ""

AllOrNothing(c) ==
    /\ Returned(c) => FullySigned(c) /\ call[c].exc = NoExc
    /\ ~Returned(c) => call[c].xml_final = <<>>
    /\ call[c].pc = "raised" => call[c].exc # NoExc

\* C12: a call either returns a fully signed document or fails and returns
\* nothing; no document with a missing or incomplete Signature is returned
\* and the caller's input XML is never modified.
C12_AllOrNothing ==
    /\ [](\A c \in DOMAIN call : AllOrNothing(c))
    /\ [][\A c \in DOMAIN call : call'[c].xml_input = call[c].xml_input]_vars

\* a call that failed in the digest section, after the document was parsed
C12_Witness ==
    \E c \in DOMAIN call :
        /\ call[c].pc = "raised"
        /\ call[c].exc = XMLSyntaxError
        /\ Located(c)
        /\ call[c].xml_final = <<>>

Stages == <<"Unsigned", "TargetLocated", "Digested", "SignedInfoBuilt",
            "Signed", "Spliced", "Serialized">>

Spliced(r) ==
    /\ r.Signature # NoNode
    /\ \E i \in 1..Len(r.root.kids) : r.root.kids[i] = r.Signature

\* the stage a call has reached, read from what it has computed
StageNo(r) ==
    IF r.xml_final # <<>> THEN 7
    ELSE IF Spliced(r) THEN 6
    ELSE IF r.signature_b64 # "" THEN 5
    ELSE IF r.Signature # NoNode THEN 4
    ELSE IF r.digest_b64 # "" THEN 3
    ELSE IF r.inf_id # <<>> THEN 2
    ELSE 1

StageOrder(c) ==
    /\ call[c].digest_b64 # "" => Located(c) /\ call[c].inf_id # <<>>
    /\ call[c].Signature # NoNode => call[c].digest_b64 # ""
    /\ call[c].signature_b64 # "" =>
          /\ call[c].Signature # NoNode
          /\ DigestValueOf(call[c].Signature) = call[c].digest_b64
          /\ call[c].digest_b64 # ""
    /\ Spliced(call[c]) =>
          /\ call[c].signature_b64 # ""
          /\ call[c].Signature.kids[2].text = call[c].signature_b64
    /\ Returned(c) <=> Stages[StageNo(call[c])] = "Serialized"

\* C13: a call moves through Unsigned, TargetLocated, Digested,
\* SignedInfoBuilt, Signed, Spliced, Serialized in that order, one stage at
\* a time; the digest is computed after the target and its Id are located,
\* SignedInfo is signed when it holds the DigestValue, and the Signature is
\* spliced after SignatureValue is computed.
C13_StageOrder ==
    /\ [](\A c \in DOMAIN call : StageOrder(c))
    /\ [][\A c \in DOMAIN call :
            \/ StageNo(call'[c]) = StageNo(call[c])
            \/ StageNo(call'[c]) = StageNo(call[c]) + 1]_vars

\* a call has gone through every stage
C13_Witness ==
    \E c \in DOMAIN call :
        /\ Returned(c)
        /\ Stages[StageNo(call[c])] = "Serialized"
        /\ Spliced(call[c])

RECURSIVE CountSignatures(_), CountSignaturesIn(_)
\* the number of Signature elements in e and below it
CountSignatures(e) == (IF IsSignature(e) THEN 1 ELSE 0) + CountSignaturesIn(e.kids)

CountSignaturesIn(kids) ==
    IF kids = <<>> THEN 0
    ELSE CountSignatures(Head(kids)) + CountSignaturesIn(Tail(kids))

\* C14 as stated: every returned document holds exactly one Signature
C14_ExactlyOneSignature ==
    \A c \in DOMAIN call : Returned(c) => CountSignatures(Output(c)) = 1

\* C14 (amended): the returned document holds exactly one Signature element
\* of the xmldsig namespace more than the input document: exactly one when
\* the input holds none.
C14_OneMoreSignature ==
    \A c \in DOMAIN call : Returned(c) =>
        /\ CountSignatures(Output(c)) = CountSignatures(InputDoc(c)) + 1
        /\ CountSignatures(InputDoc(c)) = 0 => CountSignatures(Output(c)) = 1

\* a document that had a Signature right after its target has been signed
C14_Witness ==
    \E c \in DOMAIN call :
        /\ Returned(c)
        /\ call[c].target_element < Len(InputDoc(c).kids)
        /\ IsSignature(InputDoc(c).kids[call[c].target_element + 1])

RECURSIVE CountCertificates(_), CountCertificatesIn(_)
\* the number of X509Certificate elements in e and below it
CountCertificates(e) ==
    (IF e.tag = "X509Certificate" THEN 1 ELSE 0) + CountCertificatesIn(e.kids)

CountCertificatesIn(kids) ==
    IF kids = <<>> THEN 0
    ELSE CountCertificates(Head(kids)) + CountCertificatesIn(Tail(kids))

\* C15: KeyInfo carries exactly one X509Certificate, the base64 DER of the
\* leaf certificate; the certificates of the PKCS#12 chain never appear.
C15_LeafCertificateOnly ==
    \A c \in DOMAIN call : Returned(c) =>
        LET data == Files[call[c].pfx_path].data
            out  == Output(c)
        IN  /\ CountCertificates(out) = 1
            /\ \A n \in Descendants(out) :
                 /\ n.tag = "X509Certificate" => n.text = b64encode(data.cert)
                 /\ \A k \in 1..Len(data.chain) :
                      n.text \notin {data.chain[k], b64encode(data.chain[k])}

\* a document signed with a PKCS#12 file that holds a chain
C15_Witness ==
    \E c \in DOMAIN call :
        /\ Returned(c)
        /\ Files[call[c].pfx_path].data.chain # <<>>
        /\ call[c].additional_certs # <<>>

RECURSIVE stripComments(_), stripKids(_, _)
\* e without its comments: the text after a comment joins the text before it
stripComments(e) == stripKids([e EXCEPT !.kids = <<>>], e.kids)

stripKids(acc, kids) ==
    IF kids = <<>> THEN acc
    ELSE IF Head(kids).kind = "comment"
         THEN stripKids(AddText(acc, Head(kids).tail), Tail(kids))
         ELSE stripKids(SubElement(acc, stripComments(Head(kids))), Tail(kids))

TargetOf(c) == InputDoc(c).kids[call[c].target_element]

\* C18: comments are left out of the canonical form: two documents that
\* differ only by comments inside the target get the same DigestValue.
C18_CommentsStripped ==
    \A c, d \in DOMAIN call :
        (call[c].digest_b64 # "" /\ call[d].digest_b64 # ""
            /\ stripComments(TargetOf(c)) = stripComments(TargetOf(d))) =>
                /\ call[c].digest_b64 = call[d].digest_b64
                /\ (Returned(c) /\ Returned(d)) =>
                      DigestValueOf(Output(c).kids[call[c].target_element + 1])
                        = DigestValueOf(Output(d).kids[call[d].target_element + 1])

\* two signed documents, one with a comment in the target and one without
C18_Witness ==
    \E c, d \in DOMAIN call :
        /\ Returned(c) /\ Returned(d)
        /\ TargetOf(c) # TargetOf(d)
        /\ stripComments(TargetOf(c)) = stripComments(TargetOf(d))
        /\ \E n \in Descendants(TargetOf(c)) : n.kind = "comment"
        /\ \A n \in Descendants(TargetOf(d)) : n.kind # "comment"

\* ------------------------------------------------------ NFSeThema claims
\* a handler of that name has finished
Done(name) == h.name = name /\ h.pc = "done"

\* the batch a handler that signs works on
batchOf(name) == IF name = "cancel" THEN self.cancel_batch ELSE self.rps_batch

\* the payload is the signed form of the stored document: the same target
\* element, followed by a Signature
SignedCopyOf(payload, xml, tag) ==
    LET sent == fromstring(payload.b64.gzip).root
        doc  == fromstring(xml).root
        t    == find(doc, tag)
    IN  /\ t > 0 /\ t < Len(sent.kids)
        /\ sent.kids[t] = doc.kids[t]
        /\ IsSignature(sent.kids[t + 1])

\* C17: an empty passphrase is representable: a signing request of
\* send_batch or cancel whose passphrase is empty is not rejected before
\* assinar_xml hands the container to the PKCS#12 parser.
C17_EmptyPassphraseReachesParser ==
    \A name \in {"send_batch", "cancel"} :
        (Done(name) /\ self.pfx_passwd = "" /\ pfxFileOk(self.pfx_file)
            /\ batchOf(name) # <<>>) =>
                /\ h.raised = <<>>
                /\ call # <<>>
                /\ call[1].pfx_password = "" /\ call[1].pc # "load_pfx"

\* C19: a send_batch call that meets no failure has signed and submitted
\* every RPS held in rps_batch.
C19_SendsWholeBatch ==
    (Done("send_batch") /\ h.raised = <<>> /\ h.errors = <<>>) =>
        /\ Len(h.posted) = Len(self.rps_batch)
        /\ \A k \in 1..Len(self.rps_batch) :
              SignedCopyOf(h.posted[k], self.rps_batch[k].xml, "infDPS")

\* C20: whenever the JSON reply carries a non-empty 'erros' list,
\* enviar_nfse_pkcs12 returns a mensagem_erro and send_batch reports an
\* error (errors['error'] set, Protocolo 'ERRO'), whatever the status and
\* the shape of the entries.
C20_ErrosAlwaysReported ==
    (Done("send_batch") /\ h.reply.kind = "json" /\ h.reply.erros # <<>>) =>
        /\ h.response.mensagem_erro # <<>>
        /\ h.errors # <<>>
        /\ h.result.protocolo = "ERRO"

\* the reply of the finished send_batch was accepted: status 200 or 201, a
\* JSON reply with chaveAcesso and no reported errors
Accepted ==
    /\ Done("send_batch") /\ h.reply.kind = "json"
    /\ h.reply.status \in {200, 201}
    /\ h.reply.chaveAcesso # "" /\ h.reply.erros = <<>>

\* the reply of the finished send_batch reports errors or a status other
\* than 200/201
Refused ==
    /\ Done("send_batch") /\ h.reply.kind # ""
    /\ (h.reply.erros # <<>> \/ h.reply.status \notin {200, 201})

DownloadsBounded ==
    /\ Len(h.downloads) <= 3
    /\ \A k \in 1..(Len(h.downloads) - 1) : ~h.downloads[k]
    /\ Accepted =>
          /\ Len(h.downloads) >= 1
          /\ (h.response.pdf_base64 # "") = h.downloads[Len(h.downloads)]
          /\ (h.response.pdf_base64 = "") => Len(h.downloads) = 3
          /\ h.response.status = h.reply.status
          /\ h.response.chave_acesso = h.reply.chaveAcesso
    /\ Refused => h.downloads = <<>>

\* C21: after an accepted submission the DANFSe download is attempted at
\* most 3 times and stops at the first PDF; the loop always ends and the
\* submission result is returned even when every attempt fails; no download
\* is attempted when the reply reports errors or the status is not 200/201.
C21_BoundedDownloads ==
    /\ []DownloadsBounded
    /\ (h.pc = "download") ~> Done("send_batch")

\* the value params holds under a key: "" when the key is absent or empty
valueOf(opt) == IF opt = <<>> THEN "" ELSE opt[1]

\* the key the claim names: params['chave_acesso'] when one is given,
\* params['lote.protocolo'] otherwise
ChaveGiven(params) ==
    IF valueOf(params.chave_acesso) # "" THEN valueOf(params.chave_acesso)
    ELSE valueOf(params.lote_protocolo)

Configured == self.pfx_file # "" /\ self.pfx_passwd # ""

\* the handler consulted the portal with that key, or with none when the
\* key is empty
ConsultsWith(chave) ==
    /\ (chave = "") <=> (h.errors = <<CHAVE_NAO_FORNECIDA>>)
    /\ (chave = "") => h.consulted = <<>>
    /\ (chave # "" /\ Configured) => h.consulted = <<chave>>

\* C22: get_batch_status consults the portal with params['chave_acesso']
\* when one is given and with params['lote.protocolo'] otherwise, and
\* returns the missing-key error only when neither holds a non-empty value,
\* as get_nfse_by_rps does.
C22_BatchStatusKey ==
    (Done("get_batch_status") \/ Done("get_nfse_by_rps")) =>
        ConsultsWith(ChaveGiven(h.params))

RECURSIVE FirstNonEmpty(_)
\* the first non-empty value of a sequence: "" when there is none
FirstNonEmpty(values) ==
    IF values = <<>> THEN ""
    ELSE IF Head(values) # "" THEN Head(values)
    ELSE FirstNonEmpty(Tail(values))

\* the values under 'nf.chave_acesso', 'chave_acesso', 'nf.cancela.id',
\* 'protocolo', in that order
KeyOrder(nf_fields) ==
    <<nf_fields.nf_chave_acesso, nf_fields.chave_acesso,
      nf_fields.nf_cancela_id, nf_fields.protocolo>>

\* a step of add_to_cancel does what the claim says
AddToCancelStep ==
    (h'.name = "add_to_cancel") =>
        LET chave == FirstNonEmpty(KeyOrder(h'.nf_fields))
            n == Len(self.cancel_batch)
        IN  /\ self'.rps_batch = self.rps_batch
            /\ IF chave = ""
               THEN /\ h'.raised # <<>>
                    /\ self'.cancel_batch = self.cancel_batch
               ELSE /\ h'.raised = <<>>
                    /\ Len(self'.cancel_batch) = n + 1
                    /\ SubSeq(self'.cancel_batch, 1, n) = self.cancel_batch
                    /\ self'.cancel_batch[n + 1].chave_acesso = chave

\* C23: add_to_cancel takes as access key the first non-empty value among
\* 'nf.chave_acesso', 'chave_acesso', 'nf.cancela.id', 'protocolo'; with
\* none it raises and leaves cancel_batch unchanged; otherwise it appends
\* exactly one entry holding that key; rps_batch is unchanged.
C23_AddToCancelKey == [][AddToCancelStep]_vars

\* add_to_cancel fell back to 'nf.cancela.id' with 'protocolo' also given,
\* on an object that holds an RPS
C23_Witness ==
    /\ Done("add_to_cancel")
    /\ h.nf_fields = NfFields("", "", "P1", "P2")
    /\ self.rps_batch # <<>>
    /\ self.cancel_batch[Len(self.cancel_batch)].chave_acesso = "P1"

\* ------------------------------------------------------------ utils claims
Returned_(name) == h.name = name /\ h.pc = "done"

\* one group of a dotted code: one or two digits
Group(g) == Len(g) \in {1, 2} /\ \A k \in 1..Len(g) : g[k] \in Digits

\* a dotted code of two groups
IsDotted2(cod) ==
    \E i \in 1..Len(cod) :
        /\ cod[i] = "."
        /\ Group(SubSeq(cod, 1, i - 1)) /\ Group(SubSeq(cod, i + 1, Len(cod)))

\* a dotted code of three groups
IsDotted3(cod) ==
    \E i, j \in 1..Len(cod) :
        /\ i < j /\ cod[i] = "." /\ cod[j] = "."
        /\ Group(SubSeq(cod, 1, i - 1)) /\ Group(SubSeq(cod, i + 1, j - 1))
        /\ Group(SubSeq(cod, j + 1, Len(cod)))

\* an undotted code of 4, 5 or 6 digits
IsUndotted(cod) == Len(cod) \in {4, 5, 6} /\ \A k \in 1..Len(cod) : cod[k] \in Digits

SixDigits(s) == Len(s) = 6 /\ \A k \in 1..6 : s[k] \in Digits

\* C24: ctn_to_6digits returns None or exactly six decimal digits; dotted
\* codes of two or three groups of 1-2 digits and undotted codes of 4, 5 or
\* 6 digits are accepted; '1.05', '0105' and '1.05.01' normalize to the same
\* value, 010501.
C24_SixDigits ==
    Returned_("ctn_to_6digits") =>
        /\ h.ret = <<>> \/ SixDigits(h.ret[1])
        /\ (IsDotted2(h.arg) \/ IsDotted3(h.arg) \/ IsUndotted(h.arg)) => h.ret # <<>>
        /\ h.arg \in {<<"1", ".", "0", "5">>, <<"0", "1", "0", "5">>,
                     <<"1", ".", "0", "5", ".", "0", "1">>} =>
              h.ret = <<<<"0", "1", "0", "5", "0", "1">>>>

\* the two-group code 1.05 was normalized
C24_Witness ==
    /\ Returned_("ctn_to_6digits")
    /\ h.arg = <<"1", ".", "0", "5">>
    /\ h.ret = <<<<"0", "1", "0", "5", "0", "1">>>>

\* the position of the decimal comma of v, 0 when v does not have exactly one
commaOf(v) ==
    IF Cardinality({k \in 1..Len(v) : v[k] = ","}) = 1
    THEN CHOOSE k \in 1..Len(v) : v[k] = ","
    ELSE 0

\* digits with a point before every group of three, counted from the right,
\* and at least one point
IsThousands(s) ==
    /\ s # <<>> /\ s[1] \in Digits
    /\ \E p \in 1..Len(s) : s[p] = "."
    /\ \A p \in 1..Len(s) :
          IF (Len(s) - p + 1) % 4 = 0 THEN s[p] = "." ELSE s[p] \in Digits

\* v is written in the Brazilian format: points as thousands separators and
\* one decimal comma
IsBrazilian(v) ==
    /\ commaOf(v) > 1 /\ commaOf(v) < Len(v)
    /\ IsThousands(SubSeq(v, 1, commaOf(v) - 1))
    /\ \A k \in (commaOf(v) + 1)..Len(v) : v[k] \in Digits

\* the number a value in the Brazilian format stands for
BrazilianValue(v) ==
    Number(onlyDigits(SubSeq(v, 1, commaOf(v) - 1)), SubSeq(v, commaOf(v) + 1, Len(v)))

\* digits with at most one decimal separator, point or comma
IsPlainDecimal(v) ==
    /\ \A k \in 1..Len(v) : v[k] \in Digits \cup {".", ","}
    /\ Cardinality({k \in 1..Len(v) : v[k] \in {".", ","}}) <= 1
    /\ \E k \in 1..Len(v) : v[k] \in Digits

\* C25: to_float converts a value in the Brazilian format, with any number
\* of thousands groups, to the corresponding number, and returns None only
\* for None, the empty string, or text that is not a number.
C25_BrazilianFormat ==
    Returned_("to_float") =>
        /\ IsBrazilian(h.arg) => h.ret = <<BrazilianValue(h.arg)>>
        /\ h.ret = <<>> => (h.arg = <<>> \/ ~(IsBrazilian(h.arg) \/ IsPlainDecimal(h.arg)))

\* the stored DPS of every item is unsigned
Unsigned(rps_batch) ==
    \A k \in 1..Len(rps_batch) : Signatures(fromstring(rps_batch[k].xml).root) = {}

\* a step of send_batch keeps rps_batch, hands the first DPS to assinar_xml
\* (the one the send_batch before it submitted, when one did) and posts its
\* signed form
SendBatchStep ==
    /\ Unsigned(self'.rps_batch)
    /\ (h'.name = "send_batch") => self'.rps_batch = self.rps_batch
    /\ (h'.name = "send_batch" /\ h'.pc = "signing" /\ h.pc # "signing") =>
          /\ call'[1].xml_input = self.rps_batch[1].xml
          /\ (h.name = "send_batch" /\ h.posted # <<>>) =>
                SignedCopyOf(h.posted[1], call'[1].xml_input, "infDPS")
    /\ (h.name = "send_batch" /\ Len(portal') > Len(portal)) =>
          /\ Len(portal') = Len(portal) + 1
          /\ SignedCopyOf(portal'[Len(portal')].payload, self.rps_batch[1].xml, "infDPS")

\* C26: send_batch leaves rps_batch unchanged whatever its outcome, each
\* stored xml still unsigned; two consecutive send_batch calls sign and
\* submit the same first DPS twice.
C26_BatchUnchanged == [][SendBatchStep]_vars

\* two send_batch calls on a batch of two different RPS posted the first
\* DPS twice
C26_Witness ==
    /\ Done("send_batch")
    /\ Len(self.rps_batch) = 2 /\ self.rps_batch[1] # self.rps_batch[2]
    /\ Len(portal) = 2 /\ portal[1] = portal[2]
    /\ SignedCopyOf(portal[2].payload, self.rps_batch[1].xml, "infDPS")

\* send_batch returned normally
SendBatchReturned == Done("send_batch") /\ h.raised = <<>>

ReportsError == h.errors # <<>>

ReportsAccepted == {"xml_enviado", "chave_acesso"} \subseteq h.result.keys

\* the result the final else branch of send_batch builds
ThirdBranch == ReportsError /\ h.result.keys = {"ws.response"}

\* C27: on every normal return of send_batch exactly one holds: errors has
\* an 'error' entry, or result has 'xml_enviado' and 'chave_acesso' (the
\* submission was accepted with status 200/201 and no mensagem_erro); never
\* both, never neither, and the final else branch is never reached.
C27_ErrorXorAccepted ==
    SendBatchReturned =>
        /\ ReportsError # ReportsAccepted
        /\ ReportsAccepted =>
              /\ h.response.status \in {200, 201}
              /\ h.response.mensagem_erro = <<>>
        /\ ~ThirdBranch

====
